---- MODULE Spec2Model ----
(***************************************************************************)
(* The multi-backend AI chat gateway of clioraOps                          *)
(* (clioraOps_cli/integrations/ai_provider.py): the five provider adapters *)
(* and AIClient, which dispatches a chat request to a pinned provider or   *)
(* through the providers in priority order, ending in the local fallback.  *)
(*                                                                         *)
(* Strings that the code takes apart or puts together are sequences: a     *)
(* credential is a sequence of characters, a message is a sequence of the  *)
(* pieces the code concatenates.  Optional[str] is a sequence of length 0  *)
(* (None) or 1 (the string).                                               *)
(***************************************************************************)
EXTENDS Naturals, Sequences, FiniteSets

VARIABLES
    api_key,          \* [cloud kind -> Optional credential]   (self.api_key)
    model_name,       \* GeminiProvider.model_name
    base_url,         \* OllamaProvider.base_url
    reachable,        \* environment: GET base_url/api/tags answers 200 with >= 1 model
    active_override,  \* AIClient.active_override
    pc,               \* position of the chat() call
    idx,              \* index of the provider the chat() loop is at (1-based)
    phase,            \* which loop of chat() made the adapter call
    failures,         \* chat()'s local list `failures`
    response,         \* Optional envelope returned by chat()
    calls,            \* log of this request: the adapters whose chat() ran
    probes,           \* log of this request: <<kind, is_available() result>>
    req_model,        \* Gemini chat(): model name read while building the URL
    sent,             \* log: Optional <<key, model>> the Gemini request carried
    complete,         \* log: the <<key, model>> pairs Gemini held between setups
    observed,         \* log: chat() found a provider available between its setup and its pin
    mpc,              \* position of the configure_provider() call
    cfg,              \* configure_provider()'s locals
    ret,              \* last value returned by switch / configure / status
    budget,           \* calls the configuring thread may still make
    mode,             \* AIClient.mode
    args,             \* the arguments of the chat() call: prompt, system_prompt
    system_prompt,    \* chat()'s local system_prompt after lines 341-342
    invoked,          \* log of this request: provider called, directive it was given
    unit,             \* a provider method called on its own: arguments and result
    app_mode,         \* ClioraOpsApp.mode
    session_mode,     \* SessionManager.mode
    conversation_mode,    \* ConversationManager.mode
    router_mode,      \* CommandRouter.mode
    current_mode,     \* Optional: the attribute CommandRouter.update_mode sets on the client
    config,           \* the configuration file: Optional value of each key
    conversation_history, \* ConversationManager.conversation_history
    caller,           \* the command-line code waiting for chat() to return
    shell             \* log: the last command-line operation and what it did

vars == <<api_key, model_name, base_url, reachable, active_override, pc, idx,
          phase, failures, response, calls, probes, req_model, sent, complete,
          observed, mpc, cfg, ret, budget, mode, args, system_prompt, invoked,
          unit, app_mode, session_mode, conversation_mode, router_mode,
          current_mode, config, conversation_history, caller, shell>>

\* The state of the command-line layer (core/app.py, session.py, commands.py,
\* conversation.py, config/settings.py)
cliVars == <<app_mode, session_mode, conversation_mode, router_mode,
             current_mode, config, conversation_history, caller, shell>>

gatewayVars == <<api_key, model_name, base_url, active_override, mode>>
chatVars == <<pc, idx, phase, failures, response, calls, probes, req_model, sent,
              observed, args, system_prompt, invoked>>

(***************************************************************************)
(* AIProviderType and the provider list                                    *)
(***************************************************************************)
GEMINI == "gemini"
OLLAMA == "ollama"
OPENAI == "openai"
ANTHROPIC == "anthropic"
\* AIProviderType.LOCAL (LOCAL is a reserved word of TLA+)
LOCAL_KB == "local"

AIProviderType == {GEMINI, OLLAMA, OPENAI, ANTHROPIC, LOCAL_KB}

\* AIClient.__init__: self.providers, in construction order
providers == <<GEMINI, OPENAI, ANTHROPIC, OLLAMA, LOCAL_KB>>

CloudKinds == {GEMINI, OPENAI, ANTHROPIC}
NonOffline == AIProviderType \ {LOCAL_KB}

None == <<>>
Some(x) == <<x>>

\* active_override = None
NoOverride == "None"

\* Truthiness of `if self.active_override:`: None is falsy, an enum member truthy
Truthy(o) == o # NoOverride

(***************************************************************************)
(* Inputs                                                                  *)
(***************************************************************************)
\* Credentials handed to configure_provider: a plain key and a "key|model" one
Credentials == { <<"a">>, <<"b", "|", "n">> }

\* Credentials the process environment may hold at construction
EnvKeys == { None, Some(<<"a">>) }

\* GeminiProvider.__init__ default model
DefaultModel == <<"g">>

\* OllamaProvider.__init__ default base_url
DefaultUrl == <<"l">>

\* Backend names a caller passes to switch_to_provider / configure_provider
Names == {"gemini", "Gemini", "openai", "anthropic", "ollama", "OLLAMA", "local", "bogus"}

\* str.lower() on the names above
Lower(n) ==
    CASE n = "Gemini" -> "gemini"
      [] n = "OLLAMA" -> "ollama"
      [] OTHER -> n

\* HTTP outcomes of one completion call that the dispatch model draws from
Replies == {"200", "429", "timeout"}

\* Mode (core/modes.py); AIClient.mode
BEGINNER == "beginner"
ARCHITECT == "architect"
Modes == {BEGINNER, ARCHITECT}

\* Prompts handed to chat(): a plain one, and the full prompt conversation.py
\* builds around the user's input
Marker == "USER INPUT:"
PlainPrompt == <<"explain X">>
FullPrompt == <<"CONTEXT", Marker, " what is Y", "\n", "YOUR RESPONSE:">>
Prompts == { PlainPrompt, FullPrompt }

\* system_prompt arguments: absent, empty, the caller's own
Directives == { None, Some(""), Some("Answer briefly.") }

\* Truthiness of an Optional[str]: None and "" are falsy
StrTruthy(s) == s # None /\ s[1] # ""

(***************************************************************************)
(* str operations                                                          *)
(***************************************************************************)
\* "|" in s
HasBar(s) == \E i \in 1..Len(s) : s[i] = "|"

\* index of the first "|" of s
FirstBar(s) == CHOOSE i \in 1..Len(s) : s[i] = "|" /\ \A j \in 1..(i-1) : s[j] # "|"

\* s.split("|", 1) for a string holding a "|": <<before, after>>
Split1(s) == << SubSeq(s, 1, FirstBar(s) - 1), SubSeq(s, FirstBar(s) + 1, Len(s)) >>

\* sep.join(items), every item and sep a sequence of pieces
RECURSIVE Join(_, _)
Join(sep, items) ==
    IF Len(items) = 0 THEN <<>>
    ELSE IF Len(items) = 1 THEN items[1]
    ELSE items[1] \o sep \o Join(sep, Tail(items))

(***************************************************************************)
(* Provider adapters                                                       *)
(***************************************************************************)
\* is_available that also asks the network about a keyed provider
AvailableIfReachable(p) ==
    CASE p \in CloudKinds -> api_key[p] # None /\ reachable
      [] p = OLLAMA -> reachable
      [] OTHER -> TRUE

\* BaseAIProvider.is_available of each provider, on the current state
is_available(p) ==
    CASE p \in CloudKinds -> api_key[p] # None
      [] p = OLLAMA -> reachable
      [] OTHER -> TRUE

\* AIResponse
AIResponse(ok, content, p, error) ==
    [success |-> ok, content |-> content, provider |-> p, error |-> error]

\* The text a backend answers with
Text(p) == << "text of " \o p >>

(* Exceptions.  An outcome of the transport makes the body of a provider    *)
(* method raise an exception of some class; the method's handlers catch    *)
(* the classes they name, anything else leaves the method.                 *)
ExceptionClasses == {"ConnectionError", "Timeout", "JSONDecodeError", "KeyError",
                     "IndexError"}

\* A handler that names requests' ConnectionError only
ExceptConnectionError == {"ConnectionError"}

\* `except Exception as e:` and the bare `except:`: every class above derives
\* from Exception
ExceptException == ExceptionClasses

\* Outcomes of requests.post: a status with a body of some shape, or a fault
Outcomes == {"200", "200bad", "200json", "429", "500", "refused", "timeout"}

\* The exception the body of p.chat raises on an outcome: requests.post raises
\* on a fault, response.json() on a body that is not JSON, the subscripts
\* ['candidates'][0]... on a JSON body of another shape (OllamaProvider uses .get)
Raised(p, http) ==
    CASE http = "refused" -> "ConnectionError"
      [] http = "timeout" -> "Timeout"
      [] http = "200json" -> "JSONDecodeError"
      [] http = "200bad" /\ p # OLLAMA -> "KeyError"
      [] OTHER -> "none"

\* str(e)
Str(e) == "str(" \o e \o ")"

\* The f-string of the branch for every other status
GenericError(p, http) ==
    CASE p = GEMINI -> "HTTP " \o http \o ": message"
      [] p = OLLAMA -> "HTTP " \o http
      [] OTHER -> "HTTP " \o http \o ": text"

UnexpectedStructure == "Unexpected API response structure"

\* GeminiProvider.chat after requests.post returned or raised
GeminiChat(http) ==
    LET e == Raised(GEMINI, http) IN
    CASE e \in {"KeyError", "IndexError"} ->
           AIResponse(FALSE, <<>>, GEMINI, Some(UnexpectedStructure))
      [] e # "none" -> AIResponse(FALSE, <<>>, GEMINI, Some(Str(e)))
      [] http = "200" -> AIResponse(TRUE, Text(GEMINI), GEMINI, None)
      [] http = "429" ->
           AIResponse(FALSE, <<>>, GEMINI, Some("Quota Exceeded. New keys take ~10m to activate."))
      [] OTHER -> AIResponse(FALSE, <<>>, GEMINI, Some(GenericError(GEMINI, http)))

\* KeyedChat whose envelopes all name OpenAI
KeyedChatAsOpenAI(p, http) ==
    IF http = "200" THEN AIResponse(TRUE, Text(p), OPENAI, None)
    ELSE AIResponse(FALSE, <<>>, OPENAI, Some(GenericError(OPENAI, http)))

\* OpenAIProvider.chat / AnthropicProvider.chat after requests.post returned or raised
KeyedChat(p, http) ==
    LET e == Raised(p, http) IN
    CASE e # "none" -> AIResponse(FALSE, <<>>, p, Some(Str(e)))
      [] http = "200" -> AIResponse(TRUE, Text(p), p, None)
      [] OTHER -> AIResponse(FALSE, <<>>, p, Some(GenericError(p, http)))

\* OllamaProvider.chat after requests.post returned or raised
OllamaChat(http) ==
    LET e == Raised(OLLAMA, http) IN
    CASE e # "none" -> AIResponse(FALSE, <<>>, OLLAMA, Some(Str(e)))
      [] http = "200" -> AIResponse(TRUE, Text(OLLAMA), OLLAMA, None)
      [] http = "200bad" -> AIResponse(TRUE, <<>>, OLLAMA, None)
      [] OTHER -> AIResponse(FALSE, <<>>, OLLAMA, Some(GenericError(OLLAMA, http)))

\* An exception leaves p.chat: no handler of the method catches it
Escapes(p, http) ==
    LET e == Raised(p, http) IN
    /\ e # "none"
    /\ e \notin ExceptException
    /\ ~(p = GEMINI /\ e \in {"KeyError", "IndexError"})

\* "USER INPUT:" in prompt
HasMarker(prompt) == \E i \in 1..Len(prompt) : prompt[i] = Marker

\* str.strip() of the pieces that follow the marker in the prompts above
Strip(s) == IF s = " what is Y" THEN "what is Y" ELSE s

\* prompt.split("USER INPUT:")[1].strip().split("\n")[0]
FirstLineAfterMarker(prompt) ==
    LET at == CHOOSE i \in 1..Len(prompt) :
                  prompt[i] = Marker /\ \A j \in 1..(i-1) : prompt[j] # Marker
        after == SubSeq(prompt, at + 1, Len(prompt))
        lead == IF \A i \in 1..Len(after) : after[i] = "\n" THEN Len(after)
                ELSE (CHOOSE i \in 1..Len(after) :
                         after[i] # "\n" /\ \A j \in 1..(i-1) : after[j] = "\n") - 1
        rest == SubSeq(after, lead + 1, Len(after))
        stop == IF \E i \in 1..Len(rest) : rest[i] \in {"\n", Marker}
                THEN (CHOOSE i \in 1..Len(rest) :
                         rest[i] \in {"\n", Marker}
                         /\ \A j \in 1..(i-1) : rest[j] \notin {"\n", Marker}) - 1
                ELSE Len(rest)
    IN [i \in 1..stop |-> IF i = 1 THEN Strip(rest[i]) ELSE rest[i]]

\* prompt[:100]
PromptCut == 100
Prefix(prompt) ==
    SubSeq(prompt, 1, IF Len(prompt) < PromptCut THEN Len(prompt) ELSE PromptCut)

\* LocalChat with no handler around the knowledge base lookup
LocalChatUnguarded(prompt, sp, kbRaises) ==
    IF kbRaises
    THEN AIResponse(FALSE, <<>>, LOCAL_KB, Some("str(e)"))
    ELSE AIResponse(TRUE, <<"knowledge_base.get_response">> \o prompt, LOCAL_KB, None)

\* LocalFallbackProvider.chat: the knowledge base answers, or raises
LocalChat(prompt, sp, kbRaises) ==
    LET user_prompt == IF HasMarker(prompt) THEN FirstLineAfterMarker(prompt)
                       ELSE prompt
    IN IF kbRaises
       THEN AIResponse(TRUE,
                       <<"I'm here to help! You asked: ">> \o Prefix(prompt)
                           \o <<"...\n\nConnect an AI brain for detailed responses">>,
                       LOCAL_KB, None)
       ELSE AIResponse(TRUE,
                       <<"knowledge_base.get_response">> \o user_prompt
                           \o <<IF StrTruthy(sp) THEN sp[1] ELSE "">>,
                       LOCAL_KB, None)

\* provider.chat(...) of a networked provider, given the HTTP outcome
AdapterChat(p, http) ==
    CASE p = GEMINI -> GeminiChat(http)
      [] p = OLLAMA -> OllamaChat(http)
      [] OTHER -> KeyedChat(p, http)

\* What GET base_url/api/tags meets: a status, and the models the service lists
ModelNames == {"llama3", "mistral"}
Services == [http : {"200"}, models : SUBSET ModelNames]
                \cup [http : {"200json", "500", "refused", "timeout"}, models : {{}}]

\* The exception the body of OllamaProvider.is_available raises
ProbeRaised(svc) ==
    CASE svc.http = "refused" -> "ConnectionError"
      [] svc.http = "timeout" -> "Timeout"
      [] svc.http = "200json" -> "JSONDecodeError"
      [] OTHER -> "none"

\* OllamaProvider.is_available: status 200 and len(models) > 0; `except: False`
OllamaIsAvailable(svc) ==
    IF ProbeRaised(svc) # "none" THEN FALSE
    ELSE svc.http = "200" /\ Cardinality(svc.models) > 0

\* An exception leaves OllamaProvider.is_available
ProbeEscapes(svc) == ProbeRaised(svc) \notin (ExceptException \cup {"none"})

\* OllamaProvider._get_best_model
get_best_model == "llama3"

\* Histories handed to a provider's chat(): MaxHistory or fewer turns, the
\* roles alternating, every turn with a text of its own
MaxHistory == 7
TurnText == <<"t1", "t2", "t3", "t4", "t5", "t6", "t7", "t8", "t9", "t10">>
Contexts ==
    { [i \in 1..n |-> [role |-> IF (i + k) % 2 = 0 THEN "user" ELSE "assistant",
                       content |-> <<TurnText[i]>>]] : n \in 0..MaxHistory, k \in 0..1 }

\* The chat() calls the dispatch model draws from: every prompt, every
\* directive, no history and the longest one
LongContext == CHOOSE c \in Contexts : Len(c) = MaxHistory /\ c[1].role = "user"
Requests ==
    { [prompt |-> PlainPrompt, context |-> <<>>, system_prompt |-> None],
      [prompt |-> PlainPrompt, context |-> LongContext, system_prompt |-> Some("")],
      [prompt |-> PlainPrompt, context |-> <<>>, system_prompt |-> Some("Answer briefly.")],
      [prompt |-> FullPrompt, context |-> LongContext, system_prompt |-> None],
      [prompt |-> FullPrompt, context |-> <<>>, system_prompt |-> Some("")],
      [prompt |-> FullPrompt, context |-> LongContext, system_prompt |-> Some("Answer briefly.")] }

\* context[:5]
FirstWindow(context) ==
    SubSeq(context, 1, IF Len(context) > 5 THEN 5 ELSE Len(context))

\* context[-5:]
HistoryWindow == 5
LastWindow(context) ==
    SubSeq(context,
           IF Len(context) > HistoryWindow THEN Len(context) - HistoryWindow + 1 ELSE 1,
           Len(context))

\* The request body p.chat(prompt, context, sp) posts: the model it names
\* (Ollama), the system text outside the messages (Gemini's system_instruction,
\* Anthropic's "system"), and the messages
Payload(p, prompt, context, sp) ==
    LET window == LastWindow(context)
        user == <<[role |-> "user", content |-> prompt]>>
        system == IF StrTruthy(sp) THEN <<[role |-> "system", content |-> sp]>> ELSE <<>>
        contents == [i \in 1..Len(window) |->
                        [role |-> IF window[i].role = "user" THEN "user" ELSE "model",
                         content |-> window[i].content]]
    IN CASE p = GEMINI ->
              [model |-> None, system |-> IF StrTruthy(sp) THEN sp ELSE None,
               messages |-> contents \o user]
         [] p = ANTHROPIC ->
              [model |-> None, system |-> IF StrTruthy(sp) THEN sp ELSE None,
               messages |-> window \o user]
         [] p = OLLAMA ->
              [model |-> Some(get_best_model), system |-> None,
               messages |-> system \o window \o user]
         [] OTHER ->
              [model |-> None, system |-> None, messages |-> system \o window \o user]

(***************************************************************************)
(* Initial state: AIClient.__init__ and the providers' __init__            *)
(***************************************************************************)
\* Calls the second thread makes in the two-thread specification
MaxConcCalls == 2

\* ret: the call that returned last (op, target), what it returned (ok, or the
\* status mapping) and, for a status call, the call that returned before it
NoReturn == [op |-> "none", target |-> "None", ok |-> FALSE,
             status |-> [p \in AIProviderType |-> FALSE],
             follows |-> <<"none", "None">>]
NoCfg == [target |-> "None", key |-> <<>>, old |-> <<None, DefaultModel>>]
NoArgs == [prompt |-> <<>>, context |-> <<>>, system_prompt |-> None]
NoUnit == [op |-> "none"]
NoShell == [op |-> "none"]

Init ==
    /\ api_key \in [CloudKinds -> EnvKeys]
    /\ model_name = DefaultModel
    /\ base_url = DefaultUrl
    /\ reachable \in BOOLEAN
    /\ active_override = NoOverride
    /\ pc = "idle"
    /\ idx = 1
    /\ phase = "none"
    /\ failures = <<>>
    /\ response = None
    /\ calls = <<>>
    /\ probes = <<>>
    /\ req_model = None
    /\ sent = None
    /\ complete = { <<api_key[GEMINI], model_name>> }
    /\ observed = FALSE
    /\ mpc = "idle"
    /\ cfg = NoCfg
    /\ ret = NoReturn
    /\ budget = MaxConcCalls
    /\ mode \in Modes
    /\ args = NoArgs
    /\ system_prompt = None
    /\ invoked = <<>>
    /\ unit = NoUnit
    /\ app_mode = mode
    /\ session_mode = mode
    /\ conversation_mode = mode
    /\ router_mode = mode
    /\ current_mode = None
    /\ config = [mode |-> Some(mode), nl_auto_execute |-> None]
    /\ conversation_history = <<>>
    /\ caller = "none"
    /\ shell = NoShell

\* The local Ollama service comes up or goes away
EnvChange ==
    /\ reachable' = ~reachable
    /\ UNCHANGED <<gatewayVars, chatVars, complete, mpc, cfg, ret, budget,
                   unit>>

(***************************************************************************)
(* AIClient.chat, statement by statement                                   *)
(***************************************************************************)
ChatIdle == pc = "idle" /\ unit = NoUnit

\* AfterProvider that leaves the priority loop at the first provider passed over
AfterProviderGiveUp(loop) ==
    /\ idx' = IF loop = "pinned_loop" /\ idx < Len(providers) THEN idx + 1 ELSE 1
    /\ pc' = IF loop = "pinned_loop"
             THEN (IF idx < Len(providers) THEN loop ELSE "auto_loop")
             ELSE "local"

\* The position after the provider at idx in the loop `loop`
AfterProvider(loop) ==
    IF idx < Len(providers)
    THEN /\ idx' = idx + 1
         /\ pc' = loop
    ELSE /\ idx' = 1
         /\ pc' = IF loop = "pinned_loop" THEN "auto_loop" ELSE "local"

\* Enter provider.chat() of the provider at idx: Gemini first builds its URL
EnterCall(loop) ==
    /\ phase' = loop
    /\ pc' = IF providers[idx] = GEMINI THEN "gemini_url" ELSE "send"
    /\ idx' = idx

\* _build_system_prompt that does not read self.mode
BuildArchitectPrompt == "You are a DevOps expert architect."

\* AIClient._build_system_prompt
build_system_prompt ==
    IF mode = BEGINNER THEN "You are a DevOps mentor for beginners."
    ELSE "You are a DevOps expert architect."

\* chat(prompt, context, sp) is called: `if not system_prompt:` fills the
\* directive in, `if self.active_override:` picks the loop
ChatStart(prompt, context, sp) ==
    /\ ChatIdle
    /\ args' = [prompt |-> prompt, context |-> context, system_prompt |-> sp]
    /\ system_prompt' = IF ~StrTruthy(sp) THEN Some(build_system_prompt) ELSE sp
    /\ pc' = IF Truthy(active_override) THEN "pinned_loop" ELSE "auto_loop"
    /\ complete' = { IF mpc = "setup_model" THEN cfg.old
                     ELSE <<api_key[GEMINI], model_name>> }
    /\ UNCHANGED <<gatewayVars, reachable, idx, phase, failures, response, calls,
                   probes, req_model, sent, observed, mpc, cfg, ret, budget,
                   invoked, unit>>

\* One iteration of `for provider in self.providers` of the override branch
PinnedIter ==
    /\ pc = "pinned_loop"
    /\ LET p == providers[idx] IN
       IF p = active_override
       THEN /\ probes' = Append(probes, <<p, is_available(p)>>)
            /\ IF is_available(p) THEN EnterCall("pinned_loop")
               ELSE /\ AfterProvider("pinned_loop")
                    /\ UNCHANGED phase
       ELSE /\ AfterProvider("pinned_loop")
            /\ UNCHANGED <<phase, probes>>
    /\ UNCHANGED <<gatewayVars, reachable, failures, response, calls, req_model, observed,
                   sent, complete, mpc, cfg, ret, budget,
                   args, system_prompt, invoked, unit>>

\* configure_provider(p, key) has stored the credential and not yet the override
Unpinned(p) == mpc = "pin" /\ cfg.target = p /\ active_override # p

\* One iteration of the priority loop:
\* `if provider.is_available() and provider.name() != AIProviderType.LOCAL`
AutoIter ==
    /\ pc = "auto_loop"
    /\ LET p == providers[idx] IN
       /\ probes' = Append(probes, <<p, is_available(p)>>)
       /\ observed' = (observed \/ (is_available(p) /\ Unpinned(p)))
       /\ IF is_available(p) /\ p # LOCAL_KB THEN EnterCall("auto_loop")
          ELSE /\ AfterProvider("auto_loop")
               /\ UNCHANGED phase
    /\ UNCHANGED <<gatewayVars, reachable, failures, response, calls, req_model,
                   sent, complete, mpc, cfg, ret, budget,
                   args, system_prompt, invoked, unit>>

\* GeminiProvider.chat: the f-string of the URL reads self.model_name first
GeminiUrl ==
    /\ pc = "gemini_url"
    /\ req_model' = Some(model_name)
    /\ pc' = "send"
    /\ UNCHANGED <<gatewayVars, reachable, idx, phase, failures, response, calls,
                   probes, sent, observed, complete, mpc, cfg, ret, budget,
                   args, system_prompt, invoked, unit>>

\* Dispatch with a failed pinned call retried down the priority order
DispatchRetryPinned(r) ==
    IF r.success
    THEN /\ response' = Some(r)
         /\ pc' = "done"
         /\ UNCHANGED <<idx, failures>>
    ELSE /\ failures' = Append(failures, <<r.provider, ": ">> \o r.error)
         /\ response' = response
         /\ AfterProvider("auto_loop")

\* Dispatch with no return on the first success of the priority loop
DispatchNoShortCircuit(r) ==
    IF phase = "pinned_loop"
    THEN /\ response' = Some(r)
         /\ pc' = "done"
         /\ UNCHANGED <<idx, failures>>
    ELSE /\ failures' = IF r.success THEN failures
                        ELSE Append(failures, <<r.provider, ": ">> \o r.error)
         /\ response' = response
         /\ AfterProvider("auto_loop")

\* What chat() does with the response of the provider it called
Dispatch(r) ==
    IF phase = "pinned_loop" \/ r.success
    THEN /\ response' = Some(r)
         /\ pc' = "done"
         /\ UNCHANGED <<idx, failures>>
    ELSE /\ failures' = Append(failures, <<r.provider, ": ">> \o r.error)
         /\ response' = response
         /\ AfterProvider("auto_loop")

\* provider.chat(prompt, context, system_prompt) of provider p is entered
Invocation(p) ==
    [provider |-> p, prompt |-> args.prompt, context |-> args.context,
     system_prompt |-> system_prompt]

\* provider.chat(): the request goes out (Gemini's URL then reads self.api_key)
\* and the provider's envelope comes back to chat(); an exception that leaves
\* the provider leaves chat() too, which has no handler
Send ==
    /\ pc = "send"
    /\ \E http \in Replies, kbRaises \in BOOLEAN :
         LET p == providers[idx]
             r == IF p = LOCAL_KB THEN LocalChat(args.prompt, system_prompt, kbRaises)
                  ELSE AdapterChat(p, http)
         IN IF p # LOCAL_KB /\ Escapes(p, http)
            THEN /\ pc' = "raised"
                 /\ UNCHANGED <<idx, failures, response, calls, invoked, sent>>
            ELSE /\ calls' = Append(calls, r)
                 /\ invoked' = Append(invoked, Invocation(p))
                 /\ sent' = IF p = GEMINI THEN Some(<<api_key[GEMINI], req_model[1]>>)
                            ELSE sent
                 /\ Dispatch(r)
    /\ UNCHANGED <<gatewayVars, reachable, phase, probes, req_model, observed,
                   complete, mpc, cfg, ret, budget,
                   args, system_prompt, unit>>

NoteHeader == "\n\nNote: Cloud providers failed:\n- "

\* Annotate that names only the last failure
AnnotateLastOnly(content, failed) ==
    <<"(Local Fallback) ">> \o content \o <<NoteHeader>> \o failed[Len(failed)]

\* The note chat() appends to the local answer
Annotate(content, failed) ==
    <<"(Local Fallback) ">> \o content \o <<NoteHeader>> \o Join(<<"\n- ">>, failed)

\* LocalFallback that adds the note whether or not a provider failed
LocalFallbackAlwaysNote ==
    /\ pc = "local"
    /\ \E kbRaises \in BOOLEAN :
         LET r == LocalChat(args.prompt, system_prompt, kbRaises)
         IN /\ calls' = Append(calls, r)
            /\ invoked' = Append(invoked, Invocation(providers[Len(providers)]))
            /\ response' = Some([r EXCEPT !.content = Annotate(r.content, failures)])
    /\ pc' = "done"
    /\ UNCHANGED <<gatewayVars, reachable, idx, phase, failures, probes, req_model,
                   sent, observed, complete, mpc, cfg, ret, budget,
                   args, system_prompt, unit>>

\* Last resort: local = self.providers[-1]
LocalFallback ==
    /\ pc = "local"
    /\ \E kbRaises \in BOOLEAN :
         LET r == LocalChat(args.prompt, system_prompt, kbRaises)
         IN /\ calls' = Append(calls, r)
            /\ invoked' = Append(invoked, Invocation(providers[Len(providers)]))
            /\ response' = Some(IF failures # <<>>
                                THEN [r EXCEPT !.content = Annotate(r.content, failures)]
                                ELSE r)
    /\ pc' = "done"
    /\ UNCHANGED <<gatewayVars, reachable, idx, phase, failures, probes, req_model,
                   sent, observed, complete, mpc, cfg, ret, budget,
                   args, system_prompt, unit>>

\* chat() has returned: the caller has the envelope, the call's locals are gone
ChatReturn ==
    /\ pc = "done"
    /\ pc' = "idle"
    /\ idx' = 1
    /\ phase' = "none"
    /\ failures' = <<>>
    /\ response' = None
    /\ calls' = <<>>
    /\ probes' = <<>>
    /\ req_model' = None
    /\ sent' = None
    /\ observed' = FALSE
    /\ args' = NoArgs
    /\ system_prompt' = None
    /\ invoked' = <<>>
    /\ complete' = { <<api_key[GEMINI], model_name>> }
    /\ UNCHANGED <<gatewayVars, reachable, mpc, cfg, ret, budget,
                   unit>>

(***************************************************************************)
(* AIClient.switch_to_provider, configure_provider, get_provider_status    *)
(***************************************************************************)
\* AIProviderType(name.lower()) does not raise ValueError
KnownName(name) == Lower(name) \in AIProviderType

Returned(op, name, ok) ==
    [op |-> op, target |-> IF KnownName(name) THEN Lower(name) ELSE "unknown",
     ok |-> ok, status |-> NoReturn.status, follows |-> NoReturn.follows]

\* switch_to_provider with the is_available() test left out
SwitchNoProbe(name) ==
    /\ mpc = "idle"
    /\ IF KnownName(name)
       THEN /\ active_override' = Lower(name)
            /\ ret' = Returned("switch", name, TRUE)
       ELSE /\ active_override' = active_override
            /\ ret' = Returned("switch", name, FALSE)
    /\ UNCHANGED <<api_key, model_name, base_url, reachable, chatVars, complete,
                   mpc, cfg,
                   mode, unit>>

\* switch_to_provider(name): one probe of the target, then one store
switch_to_provider(name) ==
    /\ mpc = "idle"
    /\ IF KnownName(name) /\ is_available(Lower(name))
       THEN /\ active_override' = Lower(name)
            /\ ret' = Returned("switch", name, TRUE)
       ELSE /\ active_override' = active_override
            /\ ret' = Returned("switch", name, FALSE)
    /\ UNCHANGED <<api_key, model_name, base_url, reachable, chatVars, complete,
                   mpc, cfg,
                   mode, unit>>

\* configure_provider(name, key) up to the first store of p.setup(key).
\* GeminiProvider.setup with a "key|model" credential stores api_key, then
\* model_name; every other setup is a single store (LocalFallbackProvider: none).
ConfigureSetup(name, key) ==
    /\ mpc = "idle"
    /\ IF ~KnownName(name)
       THEN /\ ret' = Returned("configure", name, FALSE)
            /\ UNCHANGED <<api_key, base_url, complete, mpc, cfg>>
       ELSE LET target == Lower(name)
                split == target = GEMINI /\ HasBar(key)
            IN /\ api_key' = CASE split -> [api_key EXCEPT ![GEMINI] = Some(Split1(key)[1])]
                               [] target \in CloudKinds /\ ~split ->
                                    [api_key EXCEPT ![target] = Some(key)]
                               [] OTHER -> api_key
               /\ base_url' = IF target = OLLAMA THEN key ELSE base_url
               /\ complete' = IF target = GEMINI /\ ~split
                              THEN complete \cup { <<Some(key), model_name>> }
                              ELSE complete
               /\ mpc' = IF split THEN "setup_model" ELSE "pin"
               /\ cfg' = [target |-> target, key |-> key,
                          old |-> IF split THEN <<api_key[GEMINI], model_name>>
                                  ELSE NoCfg.old]
               /\ ret' = ret
    /\ UNCHANGED <<model_name, reachable, active_override, chatVars,
                   mode, unit>>

\* GeminiProvider.setup: the second store of the tuple assignment
ConfigureSetupModel ==
    /\ mpc = "setup_model"
    /\ model_name' = Split1(cfg.key)[2]
    /\ complete' = complete \cup { <<api_key[GEMINI], Split1(cfg.key)[2]>> }
    /\ mpc' = "pin"
    /\ cfg' = [cfg EXCEPT !.old = NoCfg.old]
    /\ UNCHANGED <<api_key, base_url, reachable, active_override, chatVars, ret, budget,
                   mode, unit>>

\* ConfigurePin that returns True without storing active_override
ConfigureNoPin ==
    /\ mpc = "pin"
    /\ active_override' = active_override
    /\ ret' = Returned("configure", cfg.target, is_available(cfg.target))
    /\ mpc' = "idle"
    /\ cfg' = NoCfg
    /\ UNCHANGED <<api_key, model_name, base_url, reachable, chatVars, complete,
                   budget,
                   mode, unit>>

\* ConfigurePin that clears the override when the provider stays unavailable
ConfigurePinReset ==
    /\ mpc = "pin"
    /\ IF is_available(cfg.target)
       THEN /\ active_override' = cfg.target
            /\ ret' = Returned("configure", cfg.target, TRUE)
       ELSE /\ active_override' = NoOverride
            /\ ret' = Returned("configure", cfg.target, FALSE)
    /\ mpc' = "idle"
    /\ cfg' = NoCfg
    /\ UNCHANGED <<api_key, model_name, base_url, reachable, chatVars, complete,
                   budget,
                   mode, unit>>

\* configure_provider: `if p.is_available(): self.active_override = target`
ConfigurePin ==
    /\ mpc = "pin"
    /\ IF is_available(cfg.target)
       THEN /\ active_override' = cfg.target
            /\ ret' = Returned("configure", cfg.target, TRUE)
       ELSE /\ active_override' = active_override
            /\ ret' = Returned("configure", cfg.target, FALSE)
    /\ mpc' = "idle"
    /\ cfg' = NoCfg
    /\ UNCHANGED <<api_key, model_name, base_url, reachable, chatVars, complete,
                   budget,
                   mode, unit>>

\* get_provider_status that lists the available providers only
StatusAvailableOnly ==
    /\ mpc = "idle"
    /\ ret' = [op |-> "status", target |-> "None", ok |-> TRUE,
               status |-> [p \in {q \in AIProviderType : is_available(q)} |-> TRUE],
               follows |-> <<ret.op, ret.target>>]
    /\ UNCHANGED <<gatewayVars, reachable, chatVars, complete, mpc, cfg,
                   unit>>

\* get_provider_status()
get_provider_status ==
    /\ mpc = "idle"
    /\ ret' = [op |-> "status", target |-> "None", ok |-> TRUE,
               status |-> [p \in AIProviderType |-> is_available(p)],
               follows |-> <<ret.op, ret.target>>]
    /\ UNCHANGED <<gatewayVars, reachable, chatVars, complete, mpc, cfg,
                   unit>>

\* The caller has taken the value its call returned
TakeReturn ==
    /\ mpc = "idle"
    /\ ret # NoReturn
    /\ ret' = NoReturn
    /\ UNCHANGED <<gatewayVars, reachable, chatVars, complete, mpc, cfg, budget,
                   unit>>

MutatorIdle == mpc = "idle" /\ ret = NoReturn

(***************************************************************************)
(* A provider called on its own, by a caller that has just constructed the *)
(* client: what the method returns depends on its arguments and on what    *)
(* the transport answers, not on the requests the client served before.    *)
(***************************************************************************)
Constructed ==
    /\ ChatIdle
    /\ MutatorIdle
    /\ active_override = NoOverride
    /\ model_name = DefaultModel
    /\ base_url = DefaultUrl
    /\ api_key \in [CloudKinds -> EnvKeys]

\* p.is_available()
ProviderIsAvailable(p, svc) ==
    /\ Constructed
    /\ unit' = [op |-> "is_available", provider |-> p, service |-> svc,
                raised |-> (p = OLLAMA /\ ProbeEscapes(svc)),
                out |-> IF p = OLLAMA THEN OllamaIsAvailable(svc) ELSE is_available(p)]
    /\ UNCHANGED <<gatewayVars, reachable, chatVars, complete, mpc, cfg, ret, budget>>

\* p.chat(prompt, context, sp) of a networked provider; `exposed` are the models
\* the Ollama service lists when the request arrives
ProviderChat(p, http, exposed, prompt, context, sp) ==
    /\ Constructed
    /\ unit' = [op |-> "chat", provider |-> p, http |-> http, exposed |-> exposed,
                prompt |-> prompt, context |-> context, system_prompt |-> sp,
                payload |-> Payload(p, prompt, context, sp),
                raised |-> Escapes(p, http),
                out |-> AdapterChat(p, http)]
    /\ UNCHANGED <<gatewayVars, reachable, chatVars, complete, mpc, cfg, ret, budget>>

\* The caller has taken what the provider returned
ProviderReturn ==
    /\ unit # NoUnit
    /\ unit' = NoUnit
    /\ UNCHANGED <<gatewayVars, reachable, chatVars, complete, mpc, cfg, ret, budget>>

(***************************************************************************)
(* features/reviewer.py: CodeReviewer.  A command line is the sequence of   *)
(* its words, which single blanks separate; a regular expression is the    *)
(* condition it puts on the words, with a class of words for each piece    *)
(* that looks inside a word.                                               *)
(***************************************************************************)
SAFE == "safe"
CAUTION == "caution"
DANGEROUS == "dangerous"
CRITICAL == "critical"
RiskLevel == {SAFE, CAUTION, DANGEROUS, CRITICAL}

\* Classes of words: what a piece of a pattern finds in the words used here
StartsSlash == {"/", "/tmp", "/dev/sda"}     \* /
NamedVar == {"$DIR"}                         \* \$[A-Z_]+
WordVar == {"$DIR", "$1"}                    \* \$\w+
BracedVar == {"${DIR}"}                      \* \$\{\w+\}
CommandSubst == {"$(date)"}                  \* \$\(
DotSh == {"a.sh"}                            \* \.sh
HasSh == {"a.sh", "sh", "bash", "zsh", "push"}  \* sh
SudoOption == {"-l", "-s", "-i"}             \* -[lnSHPEi], whatever the case
QuotedSecret == {"'hunter2hunter2'"}         \* ['"][A-Za-z0-9/\+=\-]{8,}['"]

Commands ==
    { <<"docker", "ps">>,
      <<"ls", "-i">>,
      <<"rm", "-rf", "/">>,
      <<"rm", "-rf", "$DIR">>,
      <<"rm", "-rf", "$1">>,
      <<"rm", "-rf", "${DIR}">>,
      <<"curl", "u", "|", "bash">>,
      <<"curl", "u", "|", "zsh">>,
      <<"wget", "u", "|", "sh">>,
      <<"chmod", "777", "f">>,
      <<"chmod", "777", "/tmp", "&&", "rm", "-rf", "/tmp">>,
      <<"sudo", "rm", "-rf", "/">>,
      <<"sudo", "-l">>,
      <<"sudo", "-s">>,
      <<"git", "push", "--force">>,
      <<"git", "push", "-f", "&&", "eval", "$DIR">>,
      <<"eval", "$DIR">>,
      <<"eval", "(", "x">>,
      <<"exec", "$(date)">>,
      <<"DROP", "DATABASE", "x">>,
      <<"kubectl", "delete", "pod", "web", "production">>,
      <<"docker", "run", "--privileged", "x">>,
      <<"password", "=", "'hunter2hunter2'">>,
      <<"sudo", "x", ">", "a.sh", "&&", "sh", "a.sh">>,
      <<"dd", "if=/dev/zero", "of=/dev/sda">>,
      <<"systemctl", "stop", "nginx">> }

\* The positions of cmd where words of ws[1], ws[2], ... follow one another
Run(cmd, ws) ==
    { i \in 1..Len(cmd) : /\ i + Len(ws) - 1 <= Len(cmd)
                          /\ \A k \in 1..Len(ws) : cmd[i + k - 1] \in ws[k] }

\* A word of W comes somewhere after position i
Later(cmd, i, W) == \E j \in (i + 1)..Len(cmd) : cmd[j] \in W

\* A word of W comes after a "|" that comes after position i
PipedInto(cmd, i, W) ==
    \E j \in (i + 1)..(Len(cmd) - 1) : cmd[j] = "|" /\ cmd[j + 1] \in W

\* CodeReviewer.DANGEROUS_PATTERNS, in the order of the list
DANGEROUS_PATTERNS ==
    << CRITICAL, CRITICAL, CRITICAL, DANGEROUS, DANGEROUS, CAUTION, DANGEROUS,
       CAUTION, DANGEROUS, DANGEROUS, DANGEROUS, CRITICAL, CRITICAL, CRITICAL,
       DANGEROUS >>

\* CommandPattern.matches of the n-th pattern: regex.search(command)
matches(n, cmd) ==
    CASE n = 1  -> Run(cmd, <<{"rm"}, {"-rf"}, StartsSlash>>) # {}
      [] n = 2  -> \E i \in Run(cmd, <<{"kubectl"}, {"delete"},
                                       {"pod", "deployment", "service"}>>) :
                       Later(cmd, i + 2, {"production"})
      [] n = 3  -> Run(cmd, <<{"DROP"}, {"DATABASE"}>>) # {}
      [] n = 4  -> Run(cmd, <<{"chmod"}, {"777"}>>) # {}
      [] n = 5  -> \E i, j, k, l \in 1..Len(cmd) :
                       /\ cmd[i] = "sudo" /\ i + 2 <= j /\ cmd[j] = ">"
                       /\ j < k /\ cmd[k] \in DotSh
                       /\ k < l /\ cmd[l] = "&&"
                       /\ Later(cmd, l, HasSh)
      [] n = 6  -> Run(cmd, <<{"git"}, {"push"}, {"-f", "--force"}>>) # {}
      [] n = 7  -> \E i \in Run(cmd, <<{"docker"}, {"run"}>>) :
                       Later(cmd, i + 1, {"--privileged"})
      [] n = 8  -> Run(cmd, <<{"eval"}, {"("}>>) # {}
      [] n = 9  -> Run(cmd, <<{"rm"}, {"-rf"}, NamedVar>>) # {}
      [] n = 10 -> \E i \in Run(cmd, <<{"curl"}>>) :
                       PipedInto(cmd, i, {"bash", "sh", "zsh"})
      [] n = 11 -> Run(cmd, <<{"api_key", "secret", "password", "token"}, {"="},
                              QuotedSecret>>) # {}
      [] n = 12 -> Run(cmd, <<{"rm"}, {"-rf"}, WordVar \cup BracedVar>>) # {}
      [] n = 13 -> \E i \in Run(cmd, <<{"eval", "exec"}>>) :
                       Later(cmd, i, WordVar \cup CommandSubst)
      [] n = 14 -> \E i \in Run(cmd, <<{"curl", "wget"}>>) :
                       PipedInto(cmd, i, {"bash", "sh"})
      [] n = 15 -> \E i \in Run(cmd, <<{"sudo"}>>) :
                       /\ i < Len(cmd)
                       /\ cmd[i + 1] \notin SudoOption \/ cmd[i + 1] = "-s"

Matching(cmd) == { n \in 1..Len(DANGEROUS_PATTERNS) : matches(n, cmd) }

\* CodeReviewer._create_review_result(pattern, mode) for the n-th pattern
create_review_result(n, m) ==
    [safe |-> FALSE,
     risk_level |-> DANGEROUS_PATTERNS[n],
     pattern |-> n,
     explanation |-> IF m = BEGINNER THEN "beginner_explanation"
                     ELSE "architect_explanation",
     proceed |-> DANGEROUS_PATTERNS[n] # CRITICAL,
     require_confirmation |-> DANGEROUS_PATTERNS[n] = DANGEROUS]

\* CodeReviewer.review_command(command, mode): the first pattern of the list
\* that matches decides
review_command(cmd, m) ==
    IF Matching(cmd) = {}
    THEN [safe |-> TRUE, risk_level |-> SAFE, pattern |-> 0,
          explanation |-> "No known dangerous patterns detected.",
          proceed |-> TRUE, require_confirmation |-> FALSE]
    ELSE create_review_result(
             CHOOSE n \in Matching(cmd) : \A k \in Matching(cmd) : n <= k, m)

(***************************************************************************)
(* features/command_generator.py: CommandGenerator                         *)
(***************************************************************************)
\* Classes of words for CommandGenerator.DANGEROUS_PATTERNS and the three
\* substring tests of _check_safety
StartsIf == {"if=/dev/zero"}                 \* if=
Mkfs == {"mkfs.ext4"}                        \* mkfs\.
ForkBomb == {":(){"}                         \* :\(\)\s*{
Interactive == {"-i"}                        \* '-i', '--interactive', 'confirm'
Network == {"curl", "wget"}                  \* 'curl', 'wget', 'nc', 'ssh'
Sudo == {"sudo"}                             \* 'sudo'

\* The tests of _check_safety in the order they append their warning: the
\* eight patterns, then the three substring tests
SafetyChecks ==
    << "rm -rf /", "dd if=", "mkfs.", "fork bomb", "chmod 000|777",
       "sudo rm|dd|mkfs", "> /dev/sda", "systemctl stop|disable|mask",
       "may prompt for confirmation", "network operation", "sudo" >>

Flagged(c, cmd) ==
    CASE c = "rm -rf /" -> Run(cmd, <<{"rm"}, {"-rf"}, StartsSlash>>) # {}
      [] c = "dd if=" -> Run(cmd, <<{"dd"}, StartsIf>>) # {}
      [] c = "mkfs." -> Run(cmd, <<Mkfs>>) # {}
      [] c = "fork bomb" -> Run(cmd, <<ForkBomb>>) # {}
      [] c = "chmod 000|777" -> Run(cmd, <<{"chmod"}, {"000", "777"}>>) # {}
      [] c = "sudo rm|dd|mkfs" -> Run(cmd, <<{"sudo"}, {"rm", "dd"} \cup Mkfs>>) # {}
      [] c = "> /dev/sda" -> Run(cmd, <<{">"}, {"/dev/sda"}>>) # {}
      [] c = "systemctl stop|disable|mask" ->
             Run(cmd, <<{"systemctl"}, {"stop", "disable", "mask"}>>) # {}
      [] c = "may prompt for confirmation" -> Run(cmd, <<Interactive>>) # {}
      [] c = "network operation" -> Run(cmd, <<Network>>) # {}
      [] c = "sudo" -> Run(cmd, <<Sudo>>) # {}

\* CommandGenerator._check_safety(command): the list of warnings
check_safety(cmd) == SelectSeq(SafetyChecks, LAMBDA c : Flagged(c, cmd))

\* The text of a reply to the generator's request, as _parse_response reads
\* it: no {...} in it, a {...} that is not JSON, or a JSON object with these
\* values under "success", "command", "confidence" and "warnings"
NlCommands ==
    { <<"docker", "ps">>, <<"ls", "-i">>, <<"rm", "-rf", "/">>,
      <<"curl", "u", "|", "bash">> }
Confidences == {"high", "HIGH", "medium", "low", "certain"}
ConfidenceValues ==
    { [type |-> "absent"], [type |-> "number"] }
        \cup { [type |-> "str", value |-> c] : c \in Confidences }
Contents ==
    { [kind |-> "text"], [kind |-> "broken"] }
      \cup { [kind |-> "json", success |-> s, command |-> <<"docker", "ps">>,
              confidence |-> [type |-> "str", value |-> "high"], warnings |-> <<>>] :
             s \in {"absent", "string", "false"} }
      \cup { [kind |-> "json", success |-> "true", command |-> cmd,
              confidence |-> c, warnings |-> <<>>] :
             cmd \in NlCommands \cup {<<>>}, c \in ConfidenceValues }
      \cup { [kind |-> "json", success |-> "true", command |-> <<"docker", "ps">>,
              confidence |-> [type |-> "str", value |-> "high"],
              warnings |-> <<"be careful">>] }

\* str.lower() on the confidence strings above
LowerConfidence(c) == IF c = "HIGH" THEN "high" ELSE c

GeneratedCommand(ok, command, confidence, warnings, error) ==
    [success |-> ok, command |-> command, confidence |-> confidence,
     warnings |-> warnings, error |-> error]
Failed(error) == GeneratedCommand(FALSE, <<>>, "medium", <<>>, Some(error))

\* The confidence as the reply gave it, warnings or not
LoweredNever(confidence, warnings) == confidence

\* `if warnings: if confidence == 'high': confidence = 'medium'`
Lowered(confidence, warnings) ==
    IF warnings # <<>> /\ confidence = "high" THEN "medium" ELSE confidence

\* CommandGenerator._parse_response(response_content, original_request)
parse_response(content) ==
    IF content.kind = "text" THEN Failed("Invalid response format from AI")
    ELSE IF content.kind = "broken" THEN Failed("Failed to parse AI response: str(e)")
    ELSE IF content.success \notin {"true", "false"}
         THEN Failed("Invalid response structure")
    ELSE IF content.success = "false" THEN Failed("Generation failed")
    ELSE IF content.command = <<>> THEN Failed("No command generated")
    ELSE IF content.confidence.type = "number"
         THEN Failed("Error processing response: str(e)")
    ELSE LET warnings == check_safety(content.command)
             given == IF content.confidence.type = "absent" THEN "medium"
                      ELSE LowerConfidence(content.confidence.value)
             confidence == IF given \in {"high", "medium", "low"} THEN given
                           ELSE "medium"
         IN GeneratedCommand(TRUE, content.command, Lowered(confidence, warnings),
                             warnings, None)

(***************************************************************************)
(* The command-line layer around the client: core/app.py, core/session.py, *)
(* core/commands.py, core/conversation.py, config/settings.py              *)
(***************************************************************************)
\* Every variable of the client and its providers
clientVars == <<gatewayVars, reachable, chatVars, complete, mpc, cfg, ret, budget,
                unit>>
modeVars == <<app_mode, session_mode, conversation_mode, router_mode, current_mode>>

\* config/settings.py: a write of the configuration file succeeds or fails
WriteOutcomes == {"written", "denied"}

\* save_config(mode): the file becomes {"mode": mode.value}; a failed write is
\* reported and leaves the file as it was
save_config(m, outcome) ==
    config' = IF outcome = "written"
              THEN [mode |-> Some(m), nl_auto_execute |-> None]
              ELSE config

\* get_nl_settings()["auto_execute"]: the key's value, False when absent
nl_auto_execute == config.nl_auto_execute = Some(TRUE)

\* set_nl_settings(auto_execute=b)
SetNlSettings(b, outcome) ==
    /\ config' = IF outcome = "written"
                 THEN [config EXCEPT !.nl_auto_execute = Some(b)]
                 ELSE config
    /\ shell' = [op |-> "set_nl_settings", auto_execute |-> b, write |-> outcome]
    /\ UNCHANGED <<clientVars, modeVars, conversation_history, caller>>

\* Lines typed at the prompt of the interactive session, or given to app.run:
\* the sequence of the line's words
Lines ==
    { <<"switch", "to", "architect">>, <<"switch", "to", "beginner">>,
      <<"switch", "sides">>, <<"switch", "brain", "ollama">>,
      <<"setup", "ai", "ollama", "l">>, <<"setup", "ai", "bogus", "l">>,
      <<"setup", "ai">>,
      <<"what", "is", "docker">>, <<"threat", "api">>, <<"threat">>,
      <<"list", "running", "containers">>, <<"status">>, <<"help">> }

\* The lines of a session that talks to the mentor
TalkLines ==
    { <<"what", "is", "docker">>, <<"setup", "ai", "ollama", "l">>, <<"status">> }

\* The lines of a session that gives commands
CommandLines == Lines \ { <<"what", "is", "docker">> }

\* The lines app.run is given here
RunLines == { <<"threat", "api">>, <<"list", "running", "containers">>, <<"help">> }

\* user_input.lower().startswith(...) for a prefix that is whole words
StartsWith(line, ws) == Len(line) >= Len(ws) /\ SubSeq(line, 1, Len(ws)) = ws

\* w in user_input.lower(), for a w that the words here hold only as a whole
HasWord(line, w) == \E i \in 1..Len(line) : line[i] = w

\* Classes of words for core/nl_detector.py and is_conversational_input
ConversationalStart == {"what", "analyze"}   \* starts with a conversational indicator
ExplicitKeyword == {"try", "sudo", "docker", "git"}   \* EXPLICIT_KEYWORDS
StartsDash == {"-i", "-l", "-s", "-f", "-rf", "--force"}  \* [-]
NlTrigger == {"list", "what", "analyze", "help"}     \* holds one of NL_TRIGGERS
Imperative == {"list", "analyze"}            \* _is_imperative
Preposition == {"all", "in", "from", "to", "for", "brain"}  \* all\s+\w+, (?:in|from|to|for)\s+\w+
QuestionWord == {"what"}                     \* QUESTION_WORDS
ActionVerbWord == {"list", "running", "docker"}   \* holds one of ACTION_VERBS
SystemTargetWord == {"containers"}           \* holds one of SYSTEM_TARGETS

\* ConversationManager.is_conversational_input(user_input)
is_conversational_input(line) ==
    line[1] \in ConversationalStart \/ HasWord(line, "?")

\* NLDetector.is_natural_language(user_input)[0]
is_natural_language(line) ==
    LET trigger_count == Cardinality({ i \in 1..Len(line) : line[i] \in NlTrigger })
    IN IF \/ line[1] = "try"
          \/ (Len(line) > 1 /\ line[2] \in StartsDash)
          \/ \E w \in {"|", ">", "&&"} : HasWord(line, w)
       THEN FALSE
       ELSE IF line[1] \in ExplicitKeyword THEN FALSE
       ELSE IF trigger_count >= 2 THEN TRUE
       ELSE IF trigger_count >= 1 /\ (HasWord(line, "?") \/ line[1] \in Imperative)
            THEN TRUE
       ELSE IF Len(line) <= 2 THEN FALSE
       ELSE \/ Len(line) >= 4
            \/ \E i \in 1..(Len(line) - 1) : line[i] \in Preposition

\* NLDetector.classify_nl_intent(user_input)[0]
classify_nl_intent(line) ==
    LET has_action_verb == \E i \in 1..Len(line) : line[i] \in ActionVerbWord
        has_system_target == \E i \in 1..Len(line) : line[i] \in SystemTargetWord
    IN IF line[1] \in QuestionWord THEN "request"
       ELSE IF has_action_verb THEN "command"
       ELSE "ambiguous"

\* The outcome of one operation, as the shell log keeps it
Handled(op, line, handler, outcome) ==
    [op |-> op, line |-> line, handler |-> handler, outcome |-> outcome]

\* update_mode that leaves the command router as it was
AppUpdateModeNoRouter(m, outcome) ==
    /\ app_mode' = m
    /\ session_mode' = m
    /\ conversation_mode' = m
    /\ save_config(m, outcome)
    /\ shell' = [op |-> "update_mode", mode |-> m, write |-> outcome]
    /\ UNCHANGED <<clientVars, router_mode, current_mode, conversation_history, caller>>

\* ClioraOpsApp.update_mode(new_mode)
AppUpdateMode(m, outcome) ==
    /\ app_mode' = m
    /\ session_mode' = m          \* SessionManager.update_mode
    /\ conversation_mode' = m
    /\ router_mode' = m           \* CommandRouter.update_mode
    /\ current_mode' = Some(m)
    /\ save_config(m, outcome)
    /\ shell' = [op |-> "update_mode", mode |-> m, write |-> outcome]
    /\ UNCHANGED <<clientVars, conversation_history, caller>>

\* SessionManager._handle_mode_switch(user_input)
handle_mode_switch(op, line, outcome) ==
    LET new_mode == IF HasWord(line, "beginner") THEN Some(BEGINNER)
                    ELSE IF HasWord(line, "architect") THEN Some(ARCHITECT)
                    ELSE None
    IN /\ IF new_mode = None
          THEN /\ shell' = Handled(op, line, "mode_switch", "usage")
               /\ UNCHANGED <<session_mode, conversation_mode, config>>
          ELSE IF new_mode[1] = session_mode
          THEN /\ shell' = Handled(op, line, "mode_switch", "already")
               /\ UNCHANGED <<session_mode, conversation_mode, config>>
          ELSE /\ session_mode' = new_mode[1]
               /\ save_config(new_mode[1], outcome)
               /\ conversation_mode' = new_mode[1]
               /\ shell' = Handled(op, line, "mode_switch", "switched")
       /\ UNCHANGED <<clientVars, app_mode, router_mode, current_mode,
                      conversation_history, caller>>

\* The characters of a word given as a credential
Chars(word) == <<word>>

\* SessionManager._handle_ai_setup(user_input), up to configure_provider's
\* first store
handle_ai_setup(op, line) ==
    IF Len(line) < 4
    THEN /\ shell' = Handled(op, line, "ai_setup", "usage")
         /\ UNCHANGED <<clientVars, caller>>
    ELSE /\ ConfigureSetup(line[3], Chars(line[4]))
         /\ caller' = "setup"
         /\ shell' = Handled(op, line, "ai_setup", "configuring")
         /\ UNCHANGED budget

\* SessionManager._handle_brain_switch(user_input), up to the return of
\* switch_to_provider
handle_brain_switch(op, line) ==
    IF Len(line) < 3
    THEN /\ shell' = Handled(op, line, "brain_switch", "usage")
         /\ UNCHANGED <<clientVars, caller>>
    ELSE /\ switch_to_provider(line[3])
         /\ caller' = "switch"
         /\ shell' = Handled(op, line, "brain_switch", "switching")
         /\ UNCHANGED budget

\* _handle_ai_setup / _handle_brain_switch after the client's method returned
MutatorResume ==
    /\ caller \in {"setup", "switch"}
    /\ mpc = "idle"
    /\ ret.op \in {"configure", "switch"}
    /\ TakeReturn
    /\ caller' = "none"
    /\ shell' = [shell EXCEPT !.outcome = IF ret.ok THEN "activated" ELSE "failed"]
    /\ UNCHANGED <<modeVars, config, conversation_history>>

\* AIClient.is_available(): some provider other than the local one is available
ai_is_available == \E p \in NonOffline : is_available(p)

\* ConversationManager._get_history_list(last_n=5)
last_n == 5
get_history_list ==
    SubSeq(conversation_history,
           IF Len(conversation_history) > last_n
           THEN Len(conversation_history) - last_n + 1 ELSE 1,
           Len(conversation_history))

\* ConversationManager._build_system_prompt
ConversationDirective ==
    IF conversation_mode = BEGINNER
    THEN "You are a friendly DevOps mentor helping a beginner learn."
    ELSE "You are a technical DevOps architect mentoring an experienced engineer."

\* ConversationManager._format_conversation_history(last_n=5)
format_conversation_history ==
    IF conversation_history = <<>> THEN <<"New conversation">>
    ELSE Join(<<"\n">>,
              [i \in 1..Len(get_history_list) |->
                  <<IF get_history_list[i].role = "user" THEN "User: "
                    ELSE "Assistant: ">> \o get_history_list[i].content])

\* handle_conversation's full_prompt
full_prompt(line) ==
    <<"\n", ConversationDirective, "\n\nCONVERSATION CONTEXT:\n">>
        \o format_conversation_history
        \o <<"\n\nUSER LEARNING STATE:", "\n\n", Marker, "\n">>
        \o line
        \o <<"\n", "\nRESPONSE GUIDELINES:", "\n\nYOUR RESPONSE:\n">>

\* Turns the conversation history may reach
MaxTurns == 8

\* ConversationManager.handle_conversation(user_input), up to self.ai.ask
handle_conversation(op, line) ==
    /\ Len(conversation_history) + 2 <= MaxTurns
    /\ ChatStart(full_prompt(line), get_history_list, None)
    /\ caller' = "conversation"
    /\ shell' = Handled(op, line, "conversation", <<"asking">>)

\* format_ai_response(response)
format_ai_response(r) ==
    IF ~r.success
    THEN <<"Error: ", r.provider>> \o (IF r.error # None THEN r.error ELSE <<"Unknown error">>)
    ELSE <<"badge of " \o r.provider>> \o r.content

\* ConversationResume that keeps the exchange whether or not it succeeded
ConversationResumeAlways ==
    /\ caller = "conversation"
    /\ pc = "done"
    /\ conversation_history' =
          conversation_history
              \o << [role |-> "user", content |-> shell.line],
                    [role |-> "assistant", content |-> response[1].content] >>
    /\ shell' = [shell EXCEPT !.outcome = format_ai_response(response[1])]
    /\ caller' = "none"
    /\ ChatReturn
    /\ UNCHANGED <<modeVars, config>>

\* handle_conversation after self.ai.ask returned.  No exception leaves chat(),
\* so the handler's except branch is not taken.
ConversationResume ==
    /\ caller = "conversation"
    /\ pc = "done"
    /\ conversation_history' =
          IF response[1].success
          THEN conversation_history
                   \o << [role |-> "user", content |-> shell.line],
                         [role |-> "assistant", content |-> response[1].content] >>
          ELSE conversation_history
    /\ shell' = [shell EXCEPT !.outcome = format_ai_response(response[1])]
    /\ caller' = "none"
    /\ ChatReturn
    /\ UNCHANGED <<modeVars, config>>

\* The prompt cmd_threat builds for a topic
ThreatPrompt(topic) ==
    <<"Perform a STRIDE threat modeling analysis for the following DevOps architecture or component: ",
      topic>>

\* CommandRouter.cmd_threat(*args), up to self.ai.chat(prompt); ai_available is
\* the bound method ai.is_available, which is true of any client
cmd_threat(op, line) ==
    IF router_mode # ARCHITECT
    THEN /\ shell' = Handled(op, line, "threat", "Architect Mode REQUIRED")
         /\ UNCHANGED <<clientVars, caller>>
    ELSE IF Len(line) < 2
    THEN /\ shell' = Handled(op, line, "threat", "usage")
         /\ UNCHANGED <<clientVars, caller>>
    ELSE /\ ChatStart(ThreatPrompt(line[2]), <<>>, None)
         /\ caller' = "threat"
         /\ shell' = Handled(op, line, "threat", "modelling")

\* cmd_threat after chat() returned: the answer, or the error, is printed
ThreatResume ==
    /\ caller = "threat"
    /\ pc = "done"
    /\ shell' = [shell EXCEPT !.outcome = IF response[1].success THEN "answered"
                                           ELSE "error"]
    /\ caller' = "none"
    /\ ChatReturn
    /\ UNCHANGED <<modeVars, config, conversation_history>>

\* CommandGenerator._build_system_prompt / _build_prompt
GeneratorDirective == "You are an expert shell command generator for linux systems."
GeneratorPrompt(line) ==
    <<"Translate this request into a shell command for linux:\n\n">> \o line

\* CommandRouter._handle_nl_command(user_input, confidence), up to the chat()
\* call of CommandGenerator.generate_command
handle_nl_command(op, line) ==
    /\ ChatStart(GeneratorPrompt(line), <<>>, Some(GeneratorDirective))
    /\ caller' = "nl_command"
    /\ shell' = Handled(op, line, "nl_command", "generating")

\* What the user types at "Execute this command? (yes/no)"
Answers == {"yes", "y", "no"}

\* _handle_nl_command after chat() returned: generate_command parses the
\* reply, the command is shown and reviewed, and it goes to cmd_try at once
\* or after the user said yes
NlCommandResume(content, answer) ==
    /\ caller = "nl_command"
    /\ pc = "done"
    /\ LET result == IF response[1].success THEN parse_response(content)
                     ELSE Failed("Generation failed: error")
           auto == nl_auto_execute /\ result.confidence = "high"
                       /\ result.warnings = <<>>
           tried == result.success /\ (auto \/ answer \in {"yes", "y"})
       IN /\ shell' = [op |-> shell.op, line |-> shell.line, handler |-> "nl_command",
                       outcome |-> IF tried THEN "cmd_try" ELSE "returned",
                       result |-> result,
                       asked |-> result.success /\ ~auto,
                       answer |-> IF result.success /\ ~auto THEN answer ELSE "none"]
          /\ caller' = IF tried THEN "try" ELSE "none"
    /\ ChatReturn
    /\ UNCHANGED <<modeVars, config, conversation_history>>

\* CommandRouter.cmd_try(command): the review, then self.ai.explain(command)
\* when the command is not safe
CmdTry ==
    /\ caller = "try"
    /\ ChatIdle
    /\ LET command == shell.result.command
           result == review_command(command, router_mode)
       IN /\ shell' = [op |-> "cmd_try", command |-> command, out |-> result]
          /\ IF result.safe
             THEN /\ caller' = "none"
                  /\ UNCHANGED clientVars
             ELSE /\ caller' = "explain"
                  /\ ChatStart(<<"Explain: ">> \o command, <<>>, None)
    /\ UNCHANGED <<modeVars, config, conversation_history>>

\* cmd_try after explain() returned
ExplainResume ==
    /\ caller = "explain"
    /\ pc = "done"
    /\ caller' = "none"
    /\ ChatReturn
    /\ UNCHANGED <<modeVars, config, conversation_history, shell>>

\* CommandRouter._handle_natural_language(user_input)
handle_natural_language(op, line) ==
    IF classify_nl_intent(line) = "command"
    THEN handle_nl_command(op, line)
    ELSE /\ shell' = Handled(op, line, classify_nl_intent(line), "not modelled")
         /\ UNCHANGED <<clientVars, caller>>

\* CommandRouter.route(user_input)
route(op, line) ==
    /\ IF is_natural_language(line) THEN handle_natural_language(op, line)
       ELSE IF line[1] = "threat" THEN cmd_threat(op, line)
       ELSE /\ shell' = Handled(op, line, line[1], "printed")
            /\ UNCHANGED <<clientVars, caller>>
    /\ UNCHANGED <<modeVars, config, conversation_history>>

\* ClioraOpsApp.run(command, *args)
AppRun(line) == route("run", line)

\* One turn of the loop of SessionManager.start_interactive(command_router)
\* on a line that is neither empty nor exit
Repl(line, outcome) ==
    IF StartsWith(line, <<"switch">>) THEN handle_mode_switch("repl", line, outcome)
    ELSE IF line = <<"status">>
    THEN /\ shell' = Handled("repl", line, "status", "printed")
         /\ UNCHANGED <<clientVars, modeVars, config, conversation_history, caller>>
    ELSE IF StartsWith(line, <<"setup", "ai">>)
    THEN /\ handle_ai_setup("repl", line)
         /\ UNCHANGED <<modeVars, config, conversation_history>>
    ELSE IF StartsWith(line, <<"switch", "brain">>)
    THEN /\ handle_brain_switch("repl", line)
         /\ UNCHANGED <<modeVars, config, conversation_history>>
    ELSE IF is_conversational_input(line)
    THEN IF ~ai_is_available
         THEN /\ shell' = Handled("repl", line, "onboarding_guide", "printed")
              /\ UNCHANGED <<clientVars, modeVars, config, conversation_history, caller>>
         ELSE /\ handle_conversation("repl", line)
              /\ UNCHANGED <<modeVars, config, conversation_history>>
    ELSE route("repl", line)

\* No command-line operation is under way, and no call into the client
CliIdle == caller = "none" /\ shell = NoShell /\ ChatIdle /\ MutatorIdle

\* CodeReviewer.review_command(command, mode) called on its own; the
\* reviewer's own mode is the router's (CommandRouter.__init__, update_mode)
ReviewCommand(cmd, m) ==
    /\ shell' = [op |-> "review_command", command |-> cmd, mode |-> m,
                 out |-> review_command(cmd, IF m # None THEN m[1] ELSE router_mode)]
    /\ UNCHANGED <<clientVars, modeVars, config, conversation_history, caller>>

\* The operation is over: its outcome has been shown
ShellReturn ==
    /\ caller = "none"
    /\ shell # NoShell
    /\ shell' = NoShell
    /\ UNCHANGED <<clientVars, modeVars, config, conversation_history, caller>>

(***************************************************************************)
(* Specifications                                                          *)
(***************************************************************************)
\* One caller (the interactive session): a call returns before the next starts
Next ==
    \/ (EnvChange /\ UNCHANGED cliVars)
    \/ \E q \in Requests :
         MutatorIdle /\ ChatStart(q.prompt, q.context, q.system_prompt)
                     /\ UNCHANGED cliVars
    \/ (PinnedIter /\ UNCHANGED cliVars)
    \/ (AutoIter /\ UNCHANGED cliVars)
    \/ (GeminiUrl /\ UNCHANGED cliVars)
    \/ (Send /\ UNCHANGED cliVars)
    \/ (LocalFallback /\ UNCHANGED cliVars)
    \/ (ChatReturn /\ UNCHANGED cliVars)
    \/ \E name \in Names :
         ChatIdle /\ switch_to_provider(name) /\ UNCHANGED <<budget, cliVars>>
    \/ \E name \in Names, key \in Credentials :
         ChatIdle /\ ConfigureSetup(name, key) /\ UNCHANGED <<budget, cliVars>>
    \/ (ConfigureSetupModel /\ UNCHANGED cliVars)
    \/ (ConfigurePin /\ UNCHANGED cliVars)
    \/ (ChatIdle /\ get_provider_status /\ UNCHANGED <<budget, cliVars>>)
    \/ (TakeReturn /\ UNCHANGED cliVars)
    \/ (Constructed /\ \E p \in AIProviderType, svc \in Services :
                          ProviderIsAvailable(p, svc) /\ UNCHANGED cliVars)
    \/ (Constructed /\ \E p \in NonOffline, http \in Outcomes, prompt \in Prompts,
                          context \in Contexts, sp \in Directives :
                          \E exposed \in IF p = OLLAMA THEN SUBSET ModelNames ELSE {{}} :
                             ProviderChat(p, http, exposed, prompt, context, sp)
                             /\ UNCHANGED cliVars)
    \/ (ProviderReturn /\ UNCHANGED cliVars)

Spec == Init /\ [][Next]_vars

\* A chat() caller and a configuring caller on two threads, with no lock; the
\* configuring caller makes at most MaxConcCalls calls
Spend == budget > 0 /\ budget' = budget - 1

\* The two-thread specification fixes what the interleaving does not depend on
InitConc == Init /\ mode = BEGINNER
ConcPrompts == { PlainPrompt }

NextConc ==
    \/ (EnvChange /\ UNCHANGED cliVars)
    \/ \E prompt \in ConcPrompts : ChatStart(prompt, <<>>, None) /\ UNCHANGED cliVars
    \/ (PinnedIter /\ UNCHANGED cliVars)
    \/ (AutoIter /\ UNCHANGED cliVars)
    \/ (GeminiUrl /\ UNCHANGED cliVars)
    \/ (Send /\ UNCHANGED cliVars)
    \/ (LocalFallback /\ UNCHANGED cliVars)
    \/ (ChatReturn /\ UNCHANGED cliVars)
    \/ \E name \in Names : Spend /\ switch_to_provider(name) /\ UNCHANGED cliVars
    \/ \E name \in Names, key \in Credentials : Spend /\ ConfigureSetup(name, key)
                                                 /\ UNCHANGED cliVars
    \/ (ConfigureSetupModel /\ UNCHANGED cliVars)
    \/ (ConfigurePin /\ UNCHANGED cliVars)
    \/ (Spend /\ get_provider_status /\ UNCHANGED cliVars)
    \/ (TakeReturn /\ UNCHANGED cliVars)

SpecConc == InitConc /\ [][NextConc]_vars

\* A chat() caller and a caller of switch_to_provider on two threads, with no
\* lock: the log keeps the override chat() found when it was called and the
\* switches that stored a new one while it ran
ChatCalled ==
    [op |-> "chat", began |-> active_override,
     available |-> Truthy(active_override) /\ is_available(active_override),
     switched |-> <<>>]

SwitchLogged(name) ==
    IF shell # NoShell /\ pc # "done" /\ KnownName(name) /\ is_available(Lower(name))
    THEN [shell EXCEPT !.switched = Append(@, Lower(name))]
    ELSE shell

logVars == <<app_mode, session_mode, conversation_mode, router_mode, current_mode,
             config, conversation_history, caller>>

NextSwitch ==
    \/ \E prompt \in ConcPrompts :
         ChatStart(prompt, <<>>, None) /\ shell' = ChatCalled /\ UNCHANGED logVars
    \/ (PinnedIter /\ UNCHANGED cliVars)
    \/ (AutoIter /\ UNCHANGED cliVars)
    \/ (GeminiUrl /\ UNCHANGED cliVars)
    \/ (Send /\ UNCHANGED cliVars)
    \/ (LocalFallback /\ UNCHANGED cliVars)
    \/ (ChatReturn /\ shell' = NoShell /\ UNCHANGED logVars)
    \/ \E name \in Names :
         Spend /\ switch_to_provider(name) /\ shell' = SwitchLogged(name)
               /\ UNCHANGED logVars
    \/ (TakeReturn /\ UNCHANGED cliVars)

SpecSwitch == InitConc /\ [][NextSwitch]_vars

\* The command-line application: one user, one operation at a time, no
\* credential in the environment
InitApp == Init /\ api_key = [k \in CloudKinds |-> None] /\ mode = BEGINNER
OptModes == {None} \cup { Some(m) : m \in Modes }

\* The reviewer on its own
NextReview ==
    \/ (CliIdle /\ \E cmd \in Commands, m \in OptModes : ReviewCommand(cmd, m))
    \/ ShellReturn

SpecReview == InitApp /\ [][NextReview]_vars

\* A session that gives commands, through app.run and through the loop
NextApp ==
    \/ (EnvChange /\ UNCHANGED cliVars)
    \/ (CliIdle /\ \E b \in BOOLEAN, outcome \in WriteOutcomes : SetNlSettings(b, outcome))
    \/ (CliIdle /\ \E m \in Modes, outcome \in WriteOutcomes : AppUpdateMode(m, outcome))
    \/ (CliIdle /\ \E line \in RunLines : AppRun(line))
    \/ (CliIdle /\ \E line \in CommandLines, outcome \in WriteOutcomes : Repl(line, outcome))
    \/ (PinnedIter /\ UNCHANGED cliVars)
    \/ (AutoIter /\ UNCHANGED cliVars)
    \/ (Send /\ UNCHANGED cliVars)
    \/ (LocalFallback /\ UNCHANGED cliVars)
    \/ (ConfigurePin /\ UNCHANGED cliVars)
    \/ MutatorResume
    \/ ThreatResume
    \/ (caller = "nl_command" /\ pc = "done" /\
          \E content \in IF response[1].success THEN Contents ELSE {[kind |-> "text"]},
             answer \in Answers : NlCommandResume(content, answer))
    \/ CmdTry
    \/ ExplainResume
    \/ ShellReturn

SpecApp == InitApp /\ [][NextApp]_vars

\* A session that talks to the mentor
NextTalk ==
    \/ (EnvChange /\ UNCHANGED cliVars)
    \/ (CliIdle /\ \E line \in TalkLines, outcome \in WriteOutcomes : Repl(line, outcome))
    \/ (PinnedIter /\ UNCHANGED cliVars)
    \/ (AutoIter /\ UNCHANGED cliVars)
    \/ (Send /\ UNCHANGED cliVars)
    \/ (LocalFallback /\ UNCHANGED cliVars)
    \/ (ConfigurePin /\ UNCHANGED cliVars)
    \/ MutatorResume
    \/ ConversationResume
    \/ ShellReturn

SpecTalk == InitApp /\ [][NextTalk]_vars

(***************************************************************************)
(* Properties                                                              *)
(***************************************************************************)
Done == pc = "done"
Resp == response[1]
Automatic == active_override = NoOverride

\* Position of a provider in self.providers
Pos(k) == CHOOSE i \in 1..Len(providers) : providers[i] = k

\* The pinned provider's probe is the request's first, with this result
PinnedProbe(b) ==
    /\ Truthy(active_override)
    /\ Len(probes) >= 1
    /\ probes[1] = <<active_override, b>>

\* C1: a request made while pinned to k, whose probe of k reports unavailable,
\* returns success=false with origin k, and no adapter's chat was invoked.
C1_PinnedUnavailableFails ==
    (Done /\ PinnedProbe(FALSE)) =>
        /\ ~Resp.success
        /\ Resp.provider = active_override
        /\ calls = <<>>

\* C2: a request made while pinned to k, whose probe of k reports available,
\* invokes k's chat exactly once, probes and calls no other provider, and
\* returns k's envelope unchanged, success or failure.
C2_PinnedAvailableVerbatim ==
    (Done /\ PinnedProbe(TRUE)) =>
        /\ Len(calls) = 1
        /\ calls[1].provider = active_override
        /\ Len(probes) = 1
        /\ response = Some(calls[1])

C2_Witness ==
    /\ Done
    /\ PinnedProbe(TRUE)
    /\ ~Resp.success
    /\ active_override = OPENAI
    /\ api_key[ANTHROPIC] # None

\* C3: in Automatic mode the providers are probed in construction order, chat
\* runs exactly on the non-offline providers that reported available in this
\* request, in that order, and a success ends the request: nothing is called
\* after it and it is the envelope returned.
C3_AutomaticShortCircuit ==
    (Automatic /\ pc # "idle") =>
        /\ \A i \in 1..Len(probes) : probes[i][1] = providers[i]
        /\ \A i \in 1..Len(calls) :
             calls[i].provider # LOCAL_KB =>
                /\ Pos(calls[i].provider) <= Len(probes)
                /\ probes[Pos(calls[i].provider)][2]
                /\ calls[i].success => (Done /\ response = Some(calls[i]))
        /\ \A i \in 1..Len(probes) :
             (probes[i][2] /\ providers[i] # LOCAL_KB) =>
                \/ \E j \in 1..Len(calls) : calls[j].provider = providers[i]
                \/ (pc \in {"gemini_url", "send"} /\ idx = i)
        /\ \A i, j \in 1..Len(calls) :
             i < j => /\ ~calls[i].success
                      /\ Pos(calls[i].provider) < Pos(calls[j].provider)

C3_Witness ==
    /\ Automatic
    /\ Done
    /\ Len(calls) = 2
    /\ calls[1].provider = GEMINI
    /\ calls[2].provider = OPENAI
    /\ calls[2].success
    /\ api_key[ANTHROPIC] # None
    /\ reachable

\* A switch call returned in this step
SwitchReturned == ret' # ret /\ ret'.op = "switch"

\* C4: switch(name) returns true and pins the named kind exactly when the name
\* is a known backend whose adapter is available when the call is made;
\* otherwise it returns false and active_override keeps its value.
C4_SwitchPinsIffAvailable ==
    [][SwitchReturned =>
        LET k == ret'.target
            avail == k \in AIProviderType /\ is_available(k)
        IN /\ ret'.ok = avail
           /\ avail => active_override' = k
           /\ ~avail => active_override' = active_override]_vars

C4_Witness ==
    /\ ret.op = "switch"
    /\ ~ret.ok
    /\ ret.target = OPENAI
    /\ api_key[OPENAI] = None
    /\ active_override = GEMINI

\* C5: configure of a keyed cloud kind returns true, leaves that kind
\* available and pinned, and a status call that follows it reports the kind
\* available with active_override still that kind.
C5_ConfigureThenStatus ==
    /\ (ret.op = "configure" /\ ret.target \in CloudKinds) =>
          /\ ret.ok
          /\ is_available(ret.target)
          /\ active_override = ret.target
    /\ (ret.op = "status" /\ ret.follows[1] = "configure"
          /\ ret.follows[2] \in CloudKinds) =>
          /\ ret.status[ret.follows[2]]
          /\ active_override = ret.follows[2]

C5_Witness ==
    /\ ret.op = "status"
    /\ ret.follows = <<"configure", ANTHROPIC>>
    /\ api_key[GEMINI] # None
    /\ api_key[OPENAI] # None

\* C6: active_override starts None, changes only in the step in which a switch
\* or configure call returns true (to that call's target), and once it names
\* a provider it is never None again.
C6_PinnedStaysPinned ==
    /\ active_override = NoOverride
    /\ [][/\ Truthy(active_override) => Truthy(active_override')
          /\ active_override' # active_override =>
                /\ ret'.op \in {"switch", "configure"}
                /\ ret'.ok
                /\ ret'.target = active_override'
                /\ UNCHANGED chatVars]_vars

C6_Witness ==
    /\ ret.op = "configure"
    /\ ~ret.ok
    /\ active_override = GEMINI
    /\ pc = "idle"

\* C7: the <<key, model>> a Gemini request carries is a pair Gemini held
\* before or after a setup, never one store of a setup without the other.
C7_NoTornCredential == sent # None => sent[1] \in complete

\* C8: no chat() finds a provider available with its new credential while
\* active_override still has the value it had before that configure call.
C8_ConfigureAtomic == ~observed

\* The returned content carries the note / names backend k
HasNote(content) == \E i \in 1..Len(content) : content[i] = NoteHeader
Mentions(content, k) == \E i \in 1..Len(content) : content[i] = k

\* An Automatic request in which every non-offline provider reported unavailable
AllUnavailable ==
    /\ Done
    /\ Automatic
    /\ Len(probes) = Len(providers)
    /\ \A i \in 1..Len(probes) : providers[i] # LOCAL_KB => ~probes[i][2]

\* C9 as stated: with every non-offline provider unavailable the envelope is
\* Offline's and its content carries a note listing the cloud kinds.
C9_OfflineListsKinds ==
    AllUnavailable =>
        /\ Resp.provider = LOCAL_KB
        /\ HasNote(Resp.content)
        /\ \A k \in NonOffline : Mentions(Resp.content, k)

\* C9 amended: with every non-offline provider unavailable the envelope is
\* Offline's own, unchanged: success, origin Offline, no note, no kind named.
C9_OfflinePlain ==
    AllUnavailable =>
        /\ Resp.provider = LOCAL_KB
        /\ Resp.success
        /\ calls = <<Resp>>
        /\ ~HasNote(Resp.content)
        /\ \A k \in NonOffline : ~Mentions(Resp.content, k)

C9_Witness ==
    /\ AllUnavailable
    /\ Resp.provider = LOCAL_KB
    /\ Len(calls) = 1

\* C10: an Automatic request in which no non-offline call succeeded ends with
\* the Offline call; with no failed call the content is Offline's answer, and
\* otherwise it is "(Local Fallback) ", the answer, the note header and one
\* "kind: error" entry per failed call, in call order, "\n- " between them;
\* a provider skipped as unavailable is not named.
C10_FallbackNote ==
    (Done /\ Automatic
        /\ \A i \in 1..Len(calls) : calls[i].provider # LOCAL_KB => ~calls[i].success) =>
        LET n == Len(calls)
            answer == calls[n].content
            L == Len(answer)
            c == Resp.content
        IN /\ n >= 1
           /\ calls[n].provider = LOCAL_KB
           /\ Resp.provider = LOCAL_KB
           /\ Resp.success
           /\ n = 1 => c = answer
           /\ n > 1 =>
                /\ Len(c) = L + 2 + 4 * (n - 1) - 1
                /\ c[1] = "(Local Fallback) "
                /\ SubSeq(c, 2, L + 1) = answer
                /\ c[L + 2] = NoteHeader
                /\ \A i \in 1..(n - 1) :
                     LET at == L + 2 + 4 * (i - 1) IN
                       /\ c[at + 1] = calls[i].provider
                       /\ c[at + 2] = ": "
                       /\ c[at + 3] = calls[i].error[1]
                       /\ i < n - 1 => c[at + 4] = "\n- "
           /\ \A i \in 1..Len(probes) : ~probes[i][2] => ~Mentions(c, probes[i][1])

C10_Witness ==
    /\ Done
    /\ Automatic
    /\ Len(calls) = 3
    /\ calls[1].provider = GEMINI
    /\ calls[2].provider = OLLAMA
    /\ calls[1].error # calls[2].error
    /\ api_key[OPENAI] = None
    /\ HasNote(Resp.content)

\* C11: an Automatic request with a non-empty prompt in which every
\* non-offline provider reported unavailable calls the local provider only,
\* with that prompt, and returns success=true with provider LOCAL, whether
\* the knowledge base answered or raised.
C11_AllDownOfflineAnswers ==
    AllUnavailable =>
        /\ args.prompt # <<>>
        /\ invoked = <<Invocation(LOCAL_KB)>>
        /\ Resp.success
        /\ Resp.provider = LOCAL_KB
        /\ Resp.error = None

C11_Witness ==
    /\ AllUnavailable
    /\ HasMarker(args.prompt)
    /\ Resp.content[1] = "I'm here to help! You asked: "
    /\ Resp.success

\* C12: no exception leaves the gateway.  is_available() of every kind returns
\* a boolean, false on a refused connection, a timeout or a malformed answer
\* of the probe; a provider's chat() turns every transport fault into a
\* failure envelope of its own kind; chat() always ends with an envelope,
\* switch and configure with a boolean (false for an unknown name), status
\* with a mapping over the five kinds.
C12_NoExceptionEscapes ==
    /\ unit.op = "is_available" =>
          /\ ~unit.raised
          /\ unit.out \in BOOLEAN
          /\ (unit.provider = OLLAMA
                /\ unit.service.http \in {"refused", "timeout", "200json"}) => ~unit.out
    /\ unit.op = "chat" =>
          /\ ~unit.raised
          /\ unit.out.provider = unit.provider
          /\ unit.http \in {"refused", "timeout"} =>
                (~unit.out.success /\ unit.out.error # None)
    /\ pc # "raised"
    /\ Done => (response # None /\ Resp.success \in BOOLEAN
                  /\ Resp.provider \in AIProviderType)
    /\ ret.op \in {"switch", "configure"} =>
          (ret.ok \in BOOLEAN /\ (ret.target = "unknown" => ~ret.ok))
    /\ ret.op = "status" => DOMAIN ret.status = AIProviderType

C12_Witness ==
    /\ Done
    /\ Automatic
    /\ Len(calls) = 3
    /\ calls[1].error = Some(Str("Timeout"))
    /\ calls[2].error = Some(Str("Timeout"))
    /\ calls[1].provider = OPENAI
    /\ Resp.success

\* C13: the local provider is the availability floor.  Its is_available() is
\* true in every state and when called on its own; every call of its chat()
\* returns success=true, also when the knowledge base raises; it is the last
\* entry of self.providers and no other; and in an Automatic request it is
\* called last, after every non-offline provider was probed and either
\* reported unavailable or was called and failed.
C13_OfflineFloor ==
    /\ is_available(LOCAL_KB)
    /\ (unit.op = "is_available" /\ unit.provider = LOCAL_KB) => unit.out
    /\ \A i \in 1..Len(providers) : (providers[i] = LOCAL_KB) <=> (i = Len(providers))
    /\ Len(invoked) = Len(calls)
    /\ \A i \in 1..Len(invoked) :
         invoked[i].provider = LOCAL_KB =>
            /\ calls[i].success
            /\ calls[i].provider = LOCAL_KB
            /\ Automatic =>
                 /\ i = Len(invoked)
                 /\ \A k \in NonOffline :
                      \E j \in 1..Len(probes) :
                         /\ probes[j][1] = k
                         /\ \/ ~probes[j][2]
                            \/ \E c \in 1..(i - 1) :
                                  invoked[c].provider = k /\ ~calls[c].success

C13_Witness ==
    /\ Done
    /\ Automatic
    /\ Len(invoked) = 3
    /\ invoked[3].provider = LOCAL_KB
    /\ invoked[1].provider = OPENAI
    /\ invoked[2].provider = OLLAMA
    /\ calls[3].content[1] = "I'm here to help! You asked: "

\* A cloud provider's chat() called on its own met this outcome
CloudChatMet(outcomes) ==
    /\ unit.op = "chat"
    /\ unit.provider \in CloudKinds
    /\ unit.http \in outcomes

\* C14: every cloud provider answers HTTP 429 with a failure whose error text
\* is not the "HTTP <status>..." text its branch for the other statuses builds.
C14_RateLimitDistinct ==
    CloudChatMet({"429"}) =>
        /\ ~unit.out.success
        /\ unit.out.error # Some(GenericError(unit.provider, "429"))

\* C15: every cloud provider answers a 200 whose JSON body lacks the expected
\* shape with a failure whose error is the fixed unexpected-structure text,
\* which is not the text of an exception of the transport.
C15_MalformedClassified ==
    CloudChatMet({"200bad"}) =>
        /\ ~unit.out.success
        /\ unit.out.error = Some(UnexpectedStructure)
        /\ \A e \in ExceptionClasses : unit.out.error # Some(Str(e))

\* C16: when the Ollama service lists at least one model, so that
\* is_available() reports true, the model OllamaProvider.chat names in its
\* request is one of the models the service lists.
C16_ModelIsExposed ==
    (/\ unit.op = "chat"
     /\ unit.provider = OLLAMA
     /\ OllamaIsAvailable([http |-> "200", models |-> unit.exposed])) =>
        /\ unit.payload.model # None
        /\ unit.payload.model[1] \in unit.exposed

\* A status call returns in this step, and the call that returned before it
\* was a status call too
StatusReturnedAgain == ret.op = "status" /\ ret' # ret /\ ret'.op = "status"

\* C17 as stated: two consecutive status calls with no configure or switch
\* between them return identical mappings, each over all five kinds.
C17_StatusIdempotent ==
    [][StatusReturnedAgain =>
        /\ DOMAIN ret'.status = AIProviderType
        /\ ret'.status = ret.status]_vars

\* C17 amended: the two mappings are each over all five kinds and agree on
\* every kind but ollama, whose entry is what the network probe answers at the
\* time of each call; they are identical when that answer did not change.
C17_StatusStable ==
    [][StatusReturnedAgain =>
        /\ DOMAIN ret.status = AIProviderType
        /\ DOMAIN ret'.status = AIProviderType
        /\ \A k \in AIProviderType \ {OLLAMA} : ret'.status[k] = ret.status[k]
        /\ ret'.status[OLLAMA] = reachable
        /\ (reachable = ret.status[OLLAMA]) => (ret'.status = ret.status)]_vars

C17_Witness ==
    /\ ret.op = "status"
    /\ ret.follows = <<"status", "None">>
    /\ ret.status[OLLAMA]
    /\ ret.status[OPENAI]
    /\ ~ret.status[GEMINI]

\* The directive chat() synthesizes for the client's mode
ModeDirective ==
    IF mode = BEGINNER THEN Some("You are a DevOps mentor for beginners.")
    ELSE Some("You are a DevOps expert architect.")

\* Every provider called so far in this request was given directive d
AllGiven(d) == \A i \in 1..Len(invoked) : invoked[i].system_prompt = d

\* C18 as stated: chat() synthesizes the directive exactly when the caller
\* supplies none, forwards a supplied one unchanged, and gives every provider
\* it calls in the request the same directive; the synthesized one is the
\* beginner string for BEGINNER and the architect string otherwise.
C18_DirectiveOnlyWhenNone ==
    pc # "idle" =>
        /\ args.system_prompt = None => AllGiven(ModeDirective)
        /\ args.system_prompt # None => AllGiven(args.system_prompt)

\* C18 amended: an absent and an empty directive are both replaced by the
\* synthesized one; a non-empty one is forwarded unchanged.
C18_DirectiveUnlessEmpty ==
    pc # "idle" =>
        /\ args.system_prompt \in {None, Some("")} =>
              (system_prompt = ModeDirective /\ AllGiven(ModeDirective))
        /\ args.system_prompt \notin {None, Some("")} =>
              (system_prompt = args.system_prompt /\ AllGiven(args.system_prompt))

C18_Witness ==
    /\ Done
    /\ Len(invoked) = 3
    /\ args.system_prompt = Some("")
    /\ mode = ARCHITECT
    /\ invoked[1].system_prompt = Some("You are a DevOps expert architect.")
    /\ invoked[3].provider = LOCAL_KB

\* The messages of a request body after its leading system message, if any
AfterSystem(msgs) ==
    IF Len(msgs) > 0 /\ msgs[1].role = "system" THEN Tail(msgs) ELSE msgs

\* The role a provider sends for a history entry: Gemini renames every role
\* but "user" to "model", the others send the entry as it is
SentRole(p, role) == IF p = GEMINI /\ role # "user" THEN "model" ELSE role

\* C19: whatever the length of the history, the request body of every
\* networked provider carries the last five history entries (all of them when
\* there are fewer), in their order, then the prompt as the final user
\* message; no older entry appears anywhere in the body.  The gateway hands
\* prompt and history to each provider it calls as it received them, and
\* holds neither once chat() has returned.
C19_HistoryWindow ==
    /\ unit.op = "chat" =>
          LET body == AfterSystem(unit.payload.messages)
              n == Len(unit.context)
              h == Len(body) - 1
          IN /\ Len(body) >= 1
             /\ body[Len(body)] = [role |-> "user", content |-> unit.prompt]
             /\ h = (IF n < 5 THEN n ELSE 5)
             /\ \A j \in 1..h :
                  /\ body[j].content = unit.context[n - h + j].content
                  /\ body[j].role = SentRole(unit.provider, unit.context[n - h + j].role)
             /\ \A i \in 1..(n - h), j \in 1..Len(unit.payload.messages) :
                  unit.payload.messages[j].content # unit.context[i].content
    /\ \A i \in 1..Len(invoked) :
          /\ invoked[i].context = args.context
          /\ invoked[i].prompt = args.prompt
    /\ pc = "idle" => (args = NoArgs /\ invoked = <<>>)

C19_Witness ==
    /\ unit.op = "chat"
    /\ unit.provider = GEMINI
    /\ Len(unit.context) = 7
    /\ unit.context[7].role = "assistant"
    /\ Len(unit.payload.messages) = 6
    /\ unit.payload.messages[1].content = <<"t3">>

\* C20: the envelope chat() returns, pinned or not and on every path, names as
\* provider the kind of the provider whose chat() was called last in the
\* request, and its content is the content that call returned, as it is or
\* inside the local-fallback note; every envelope a provider returns names
\* that provider.
C20_OriginIsProducer ==
    /\ Len(invoked) = Len(calls)
    /\ \A i \in 1..Len(invoked) : calls[i].provider = invoked[i].provider
    /\ Done =>
          LET n == Len(invoked) IN
          /\ n >= 1
          /\ Resp.provider = invoked[n].provider
          /\ \/ Resp.content = calls[n].content
             \/ /\ invoked[n].provider = LOCAL_KB
                /\ Len(Resp.content) > Len(calls[n].content)
                /\ SubSeq(Resp.content, 2, Len(calls[n].content) + 1) = calls[n].content

C20_Witness ==
    /\ Done
    /\ active_override = OLLAMA
    /\ Len(invoked) = 2
    /\ invoked[1].provider = GEMINI
    /\ Resp.provider = ANTHROPIC
    /\ ~probes[1][2]

\* review_command has just reviewed a command
Reviewed == shell.op = "review_command"
CriticalPatterns == { n \in 1..Len(DANGEROUS_PATTERNS) : DANGEROUS_PATTERNS[n] = CRITICAL }

\* C21: review_command blocks every command that matches at least one
\* CRITICAL pattern (risk_level CRITICAL, proceed false), whatever lower-risk
\* patterns it also matches; a command that matches no pattern gets risk_level
\* SAFE, safe true and proceed true.
C21_CriticalBlocked ==
    Reviewed =>
        /\ (Matching(shell.command) \cap CriticalPatterns # {}) =>
              (shell.out.risk_level = CRITICAL /\ ~shell.out.proceed)
        /\ (Matching(shell.command) = {}) =>
              (shell.out.risk_level = SAFE /\ shell.out.safe /\ shell.out.proceed)

\* The command generator has answered a request and the handler has decided
Generated == "result" \in DOMAIN shell

\* C22: a generated command that carries any safety warning is never run
\* without asking: every successful GeneratedCommand with warnings has a
\* confidence other than high, and the handler passes the command to cmd_try
\* without asking only when nl_auto_execute is enabled, the confidence is
\* high and there are no warnings.
C22_WarningsNeverAutoExecuted ==
    Generated =>
        /\ (shell.result.success /\ shell.result.warnings # <<>>) =>
              shell.result.confidence # "high"
        /\ (shell.outcome = "cmd_try" /\ ~shell.asked) =>
              /\ nl_auto_execute
              /\ shell.result.confidence = "high"
              /\ shell.result.warnings = <<>>

\* Auto-execution is on and the command has warnings: the user is asked
C22_Witness ==
    /\ Generated
    /\ nl_auto_execute
    /\ shell.result.success
    /\ shell.result.warnings # <<>>
    /\ shell.result.confidence = "medium"
    /\ shell.asked
    /\ shell.outcome = "cmd_try"

\* ClioraOpsApp.update_mode has returned
ModeUpdated == shell.op = "update_mode"

SetupDone == mpc = "pin" /\ cfg.target \in NonOffline

\* C24 as stated: configure replaces the stored credential with the given
\* value, whatever the value.
C24_StoredAsGiven ==
    SetupDone =>
        /\ cfg.target \in CloudKinds => api_key[cfg.target] = Some(cfg.key)
        /\ cfg.target = OLLAMA => base_url = cfg.key

\* C24: configure on a networked provider stores the given value without
\* validating it (for Gemini and a value with a bar, the part before the first
\* bar as the key and the rest as the model name); it returns true exactly
\* when the provider is available after that, and when it returns false, for
\* a provider still unavailable or an unknown name, the override is unchanged.
C24_Configure ==
    /\ [](SetupDone =>
            /\ (cfg.target \in CloudKinds /\ ~(cfg.target = GEMINI /\ HasBar(cfg.key)))
                  => api_key[cfg.target] = Some(cfg.key)
            /\ (cfg.target = GEMINI /\ HasBar(cfg.key))
                  => /\ api_key[GEMINI] = Some(Split1(cfg.key)[1])
                     /\ model_name = Split1(cfg.key)[2]
            /\ cfg.target = OLLAMA => base_url = cfg.key)
    /\ [][(SetupDone /\ mpc' = "idle") =>
             /\ ret'.op = "configure"
             /\ \E p \in NonOffline :
                   p = cfg.target /\ (ret'.ok <=> is_available(p)')
             /\ ~ret'.ok => active_override' = active_override
             /\ UNCHANGED <<api_key, base_url, model_name>>]_vars
    /\ [][(ret' # ret /\ ret'.op = "configure" /\ ret'.target = "unknown") =>
             /\ ~ret'.ok
             /\ UNCHANGED <<active_override, api_key, base_url, model_name>>]_vars

\* configure("ollama", url) returned false and the URL is replaced all the same
C24_Witness ==
    /\ ret.op = "configure"
    /\ ret.target = OLLAMA
    /\ ~ret.ok
    /\ base_url # DefaultUrl
    /\ active_override = OPENAI

\* chat() was called under a pin on an available networked provider, and one
\* switch to another available networked provider stored its override before
\* chat() returned
SwitchedDuringChat ==
    /\ pc = "done"
    /\ shell.op = "chat"
    /\ shell.available
    /\ shell.began \in NonOffline
    /\ Len(shell.switched) = 1
    /\ shell.switched[1] \in NonOffline \ {shell.began}

\* C25: a chat() called under Pinned(a), a available, during which a switch to
\* another available backend b takes effect, is answered by a or by b, never
\* by a third backend or the offline fallback.
C25_AnsweredByPinned ==
    SwitchedDuringChat => Resp.provider \in {shell.began, shell.switched[1]}

\* chat() runs with no directive from its caller, after the command router's
\* update_mode handed the client a mode
ChatAfterRouterUpdate ==
    /\ pc # "idle"
    /\ args.system_prompt = None
    /\ current_mode # None

\* C26: after CommandRouter.update_mode(m), a chat() given no directive
\* synthesizes the directive of mode m, not that of the mode the client was
\* constructed with.
C26_DirectiveFollowsRouter ==
    ChatAfterRouterUpdate =>
        system_prompt = Some(IF current_mode[1] = BEGINNER
                             THEN "You are a DevOps mentor for beginners."
                             ELSE "You are a DevOps expert architect.")

\* C27: a keyed cloud provider is available exactly when it holds a
\* credential, as every probe of chat() and every status report shows, and
\* once available it stays available under any sequence of chat, status,
\* switch and configure.
C27_KeyedAvailability ==
    /\ [](\A k \in CloudKinds :
            /\ is_available(k) <=> api_key[k] # None
            /\ \A i \in 1..Len(probes) :
                  probes[i][1] = k => (probes[i][2] <=> api_key[k] # None))
    /\ [][\A k \in CloudKinds :
             (ret' # ret /\ ret'.op = "status") =>
                 (ret'.status[k] <=> api_key[k] # None)]_vars
    /\ [][\A k \in CloudKinds : is_available(k) => is_available(k)']_vars

\* A provider keyed by configure reports available after a later chat, while
\* a provider never keyed reports unavailable
C27_Witness ==
    /\ ret.op = "status"
    /\ ret.follows[1] = "configure"
    /\ ret.status[OPENAI]
    /\ ~ret.status[ANTHROPIC]
    /\ ~reachable

\* The loop has dealt with a line that begins "switch brain"
BrainSwitchTyped ==
    /\ shell.op = "repl"
    /\ StartsWith(shell.line, <<"switch", "brain">>)

\* C28: the interactive line 'switch brain <provider>' reaches the client,
\* through _handle_brain_switch and switch_to_provider, and is not taken by
\* the mode-switch handler.
C28_BrainSwitchReachesClient ==
    BrainSwitchTyped => shell.handler = "brain_switch"

\* The loop has switched the session to another mode
ModeSwitched ==
    /\ shell.op = "repl"
    /\ shell.handler = "mode_switch"
    /\ shell.outcome = "switched"

\* C29: after an interactive 'switch to architect' or 'switch to beginner'
\* that changes the mode, the session manager, the conversation manager and
\* the command router all hold the new mode, so that 'threat' is accepted
\* right after a switch to architect.
C29_RouterFollowsSwitch ==
    /\ ModeSwitched =>
          /\ conversation_mode = session_mode
          /\ router_mode = session_mode
    /\ (shell.op = "repl" /\ shell.handler = "threat" /\ session_mode = ARCHITECT) =>
          shell.outcome # "Architect Mode REQUIRED"

\* handle_conversation is between its call of ask() and its return
Conversing == caller = "conversation"

\* The last n items of a history
LastTurns(h, n) == SubSeq(h, IF Len(h) > n THEN Len(h) - n + 1 ELSE 1, Len(h))

====
